---- MODULE Spec2Model ----
(***************************************************************************)
(* A model of the Indoor Sun integration (lnxd/hass-indoor-sun): the       *)
(* polling coordinators of custom_components/hass_indoor_sun and of the    *)
(* older custom_components/indoor_sun, their image analysis                *)
(* (_process_image) and the entry set-up that performs the first refresh.  *)
(*                                                                         *)
(* Both coordinators derive from Home Assistant's DataUpdateCoordinator.   *)
(* The repository supplies _async_update_data and the constructor call     *)
(* (update_interval); the base class supplies the refresh loop around it:  *)
(* it awaits _async_update_data, stores the return value in .data and sets *)
(* last_update_success, or on UpdateFailed keeps .data, records            *)
(* last_exception and clears last_update_success, and in its finally       *)
(* clause re-arms the one-shot refresh timer.  Those steps are modelled    *)
(* here as the continuation of the repository's handler.                   *)
(*                                                                         *)
(* Python dicts are functions with a domain of string keys.  Floating      *)
(* point values are IEEE 754 doubles, computed operation by operation; the *)
(* published brightness round(x, 2) is carried in hundredths of a percent. *)
(***************************************************************************)
EXTENDS Integers, Sequences, FiniteSets, TLC

\* ------------------------------------------------------------------ bounds

\* Refreshes (first refresh included) one coordinator may start.
MaxCycles == 3

\* The side, in pixels, of the largest solid frame the analyzer is given, and
\* of the grid the crop rectangles are drawn on.
MaxSide == 2

\* The test requests of one wizard that may wait for their answer at once.
MaxTestRequests == 2

\* ------------------------------------------------------------ python dicts

None == "None"

\* v is None, for a value of any kind a dict holds (an int, a bool, a text):
\* the kinds are told apart by their printed form.
IsNoneValue(v) == ToString(v) = ToString(None)

Has(d, k) == k \in DOMAIN d

\* dict.get(k, default)
Get(d, k, default) == IF k \in DOMAIN d THEN d[k] ELSE default

\* {**a, **b}
Merge(a, b) ==
    [k \in (DOMAIN a) \cup (DOMAIN b) |-> IF k \in DOMAIN b THEN b[k] ELSE a[k]]

\* ------------------------------------------------------------------ texts

\* A str the program takes apart or puts together (a URL, a base64 text) is
\* the sequence of its code points, so that it may hold any character of
\* Unicode.  A str the program only passes on or compares (a key, a name,
\* an error code, a label) is written as a string, and Text gives the code
\* points of such a string where it enters a URL.

\* The characters a string can hold: U+0001 to U+005F and U+0061 to U+00FF.
CharsBelow == "\t\n\f\r !\"#$%&'()*+,-./0123456789:;<=>?@ABCDEFGHIJKLMNOPQRSTUVWXYZ[\\]^_"

CharsAbove == "abcdefghijklmnopqrstuvwxyz{|}~ ¡¢£¤¥¦§¨©ª«¬­®¯°±²³´µ¶·¸¹º»¼½¾¿ÀÁÂÃÄÅÆÇÈÉÊËÌÍÎÏÐÑÒÓÔÕÖ×ØÙÚÛÜÝÞßàáâãäåæçèéêëìíîïðñòóôõö÷øùúûüýþÿ"

\* ord(ch) of each of them.
OrdOf ==
    [ch \in {SubSeq(CharsBelow, i, i) : i \in 1..Len(CharsBelow)}
             \cup {SubSeq(CharsAbove, i, i) : i \in 1..Len(CharsAbove)} |->
        IF \E i \in 1..Len(CharsBelow) : SubSeq(CharsBelow, i, i) = ch
        THEN CHOOSE i \in 1..Len(CharsBelow) : SubSeq(CharsBelow, i, i) = ch
        ELSE Len(CharsBelow) + 1
                 + (CHOOSE i \in 1..Len(CharsAbove) : SubSeq(CharsAbove, i, i) = ch)]

\* The text of a string: its code points.
Text(s) == [i \in 1..Len(s) |-> OrdOf[SubSeq(s, i, i)]]

\* None where a text may stand: no text holds a negative code point.
NoText == <<-1>>

\* ---------------------------------------------------------------- numbers

Abs(x) == IF x < 0 THEN -x ELSE x

Min2(a, b) == IF a <= b THEN a ELSE b

Max2(a, b) == IF a >= b THEN a ELSE b

\* ----------------------------------------------------------------- floats

\* Python's float is the IEEE 754 binary64.  A float is the record
\* [sign, man, exp] of value sign * man * 2^exp: sign is 1 or -1 and man a
\* natural number of at most 53 bits, zero for 0.0.  Natural numbers of any
\* size are sequences of limbs, least significant first, each below Limb.
\* Every operation computes the exact result and rounds it to 53 bits, to
\* nearest and ties to even, as the hardware does.  (The values of this
\* program are far from the subnormal and the overflow range.)
Limb == 2^15

RECURSIVE Bits(_)
\* int.bit_length()
Bits(x) == IF x = 0 THEN 0 ELSE 1 + Bits(x \div 2)

RECURSIVE BigOf(_)
\* The limbs of the integer x >= 0.
BigOf(x) == IF x = 0 THEN <<>> ELSE <<x % Limb>> \o BigOf(x \div Limb)

RECURSIVE BigTrim(_)
BigTrim(a) ==
    IF Len(a) > 0 /\ a[Len(a)] = 0 THEN BigTrim(SubSeq(a, 1, Len(a) - 1)) ELSE a

LimbAt(a, i) == IF i <= Len(a) THEN a[i] ELSE 0

RECURSIVE BigAddFrom(_, _, _, _)
BigAddFrom(a, b, i, carry) ==
    IF i > Len(a) /\ i > Len(b)
    THEN IF carry = 0 THEN <<>> ELSE <<carry>>
    ELSE LET s == LimbAt(a, i) + LimbAt(b, i) + carry
         IN  <<s % Limb>> \o BigAddFrom(a, b, i + 1, s \div Limb)

\* a + b
BigAdd(a, b) == BigTrim(BigAddFrom(a, b, 1, 0))

RECURSIVE BigSubFrom(_, _, _, _)
BigSubFrom(a, b, i, borrow) ==
    IF i > Len(a) THEN <<>>
    ELSE LET d == a[i] - LimbAt(b, i) - borrow
         IN  IF d < 0 THEN <<d + Limb>> \o BigSubFrom(a, b, i + 1, 1)
             ELSE <<d>> \o BigSubFrom(a, b, i + 1, 0)

\* a - b, for a >= b
BigSub(a, b) == BigTrim(BigSubFrom(a, b, 1, 0))

RECURSIVE BigCmpAt(_, _, _)
BigCmpAt(a, b, i) ==
    IF i = 0 THEN 0
    ELSE IF a[i] > b[i] THEN 1
    ELSE IF a[i] < b[i] THEN -1
    ELSE BigCmpAt(a, b, i - 1)

\* The sign of a - b.
BigCmp(a, b) ==
    IF Len(a) > Len(b) THEN 1
    ELSE IF Len(a) < Len(b) THEN -1
    ELSE BigCmpAt(a, b, Len(a))

RECURSIVE BigMulSmallFrom(_, _, _, _)
BigMulSmallFrom(a, k, i, carry) ==
    IF i > Len(a)
    THEN IF carry = 0 THEN <<>> ELSE <<carry>>
    ELSE LET p == a[i] * k + carry
         IN  <<p % Limb>> \o BigMulSmallFrom(a, k, i + 1, p \div Limb)

\* a * k, for 0 <= k <= Limb
BigMulSmall(a, k) == IF k = 0 THEN <<>> ELSE BigMulSmallFrom(a, k, 1, 0)

RECURSIVE BigDivSmallAt(_, _, _, _)
BigDivSmallAt(a, d, i, r) ==
    IF i = 0 THEN <<<<>>, r>>
    ELSE LET cur == r * Limb + a[i]
             rest == BigDivSmallAt(a, d, i - 1, cur % d)
         IN  <<rest[1] \o <<cur \div d>>, rest[2]>>

\* <<a div d, a mod d>>, for 0 < d <= Limb
BigDivSmall(a, d) ==
    LET qr == BigDivSmallAt(a, d, Len(a), 0)
    IN  <<BigTrim(qr[1]), qr[2]>>

RECURSIVE BigMulFrom(_, _, _)
BigMulFrom(a, b, i) ==
    IF i > Len(b) THEN <<>>
    ELSE BigAddFrom(BigMulSmall(a, b[i]), <<0>> \o BigMulFrom(a, b, i + 1), 1, 0)

\* a * b
BigMul(a, b) == BigTrim(BigMulFrom(a, b, 1))

\* The bit length of a.
BigBits(a) == IF Len(a) = 0 THEN 0 ELSE 15 * (Len(a) - 1) + Bits(a[Len(a)])

\* a * 2^k
BigShl(a, k) ==
    IF Len(a) = 0 THEN a
    ELSE [i \in 1..(k \div 15) |-> 0] \o BigMulSmall(a, 2^(k % 15))

\* <<a div 2^k, whether a bit that is set was shifted out>>
BigShr(a, k) ==
    LET drop == k \div 15
        kept == IF drop >= Len(a) THEN <<>> ELSE SubSeq(a, drop + 1, Len(a))
        lost == \E i \in 1..Len(a) : i <= drop /\ a[i] # 0
        qr == BigDivSmall(kept, 2^(k % 15))
    IN  <<qr[1], lost \/ qr[2] # 0>>

RECURSIVE BigToIntAt(_, _)
BigToIntAt(a, i) == IF i > Len(a) THEN 0 ELSE a[i] + Limb * BigToIntAt(a, i + 1)

\* The integer of the limbs a (below 2^31).
BigToInt(a) == BigToIntAt(a, 1)

BigOdd(a) == Len(a) > 0 /\ a[1] % 2 = 1

\* 0.0
FZero == [sign |-> 1, man |-> <<>>, exp |-> 0]

\* The float sign * m * 2^e of limbs m of 53 bits, or of the 54 bits 2^53
\* that rounding up the largest mantissa leaves.
Normal(sign, m, e) ==
    IF BigBits(m) = 54
    THEN [sign |-> sign, man |-> BigDivSmall(m, 2)[1], exp |-> e + 1]
    ELSE [sign |-> sign, man |-> m, exp |-> e]

\* Round to nearest, ties to even: mr is <<the 53 bits kept, the bits cut>>,
\* half the weight of the first bit cut, sticky whether anything below the
\* bits cut was lost.
RoundUp(sign, mr, half, sticky, e) ==
    Normal(sign,
           IF mr[2] > half \/ (mr[2] = half /\ (sticky \/ BigOdd(mr[1])))
           THEN BigAdd(mr[1], <<1>>)
           ELSE mr[1],
           e)

\* The quotient q, of 55 or 56 bits, loses its s lowest bits.
RoundCut(sign, q, sticky, e, s) ==
    RoundUp(sign, BigDivSmall(q, 2^s), 2^(s - 1), sticky, e + s)

\* qr is <<quotient, remainder>> of the division by d.
RoundQuot(sign, qr, lost, e) ==
    RoundCut(sign, qr[1], lost \/ qr[2] # 0, e, BigBits(qr[1]) - 53)

\* sh is <<N scaled by a power of two, whether scaling lost a set bit>>.
RoundShifted(sign, sh, d, e) ==
    RoundQuot(sign, IF d = 1 THEN <<sh[1], 0>> ELSE BigDivSmall(sh[1], d), sh[2], e)

\* N is scaled by 2^k.
RoundAligned(sign, N, d, e, k) ==
    RoundShifted(sign, IF k >= 0 THEN <<BigShl(N, k), FALSE>> ELSE BigShr(N, -k),
                 d, e - k)

\* The float nearest to sign * (N / d) * 2^e, ties to even, for limbs N and
\* an integer 0 < d < Limb: N is scaled to a quotient of 55 or 56 bits, the
\* bits below the 53rd decide the rounding together with the remainders.
RoundRat(sign, N, d, e) ==
    IF Len(N) = 0 THEN FZero
    ELSE RoundAligned(sign, N, d, e, Bits(d) + 55 - BigBits(N))

\* float(k) of an integer k, |k| < 2^31: exact.
FOfInt(k) ==
    IF k = 0 THEN FZero
    ELSE [sign |-> IF k < 0 THEN -1 ELSE 1,
          man |-> BigShl(BigOf(Abs(k)), 53 - Bits(Abs(k))),
          exp |-> Bits(Abs(k)) - 53]

FNeg(x) == [x EXCEPT !.sign = -x.sign]

FIsZero(x) == Len(x.man) = 0

\* sign(x) * X * 2^e + sign(y) * Y * 2^e, rounded; +0.0 when they cancel.
FAddAligned(xsign, ysign, X, Y, e) ==
    RoundRat(IF xsign = ysign \/ BigCmp(X, Y) > 0 THEN xsign ELSE ysign,
             IF xsign = ysign THEN BigAdd(X, Y)
             ELSE IF BigCmp(X, Y) > 0 THEN BigSub(X, Y)
             ELSE BigSub(Y, X),
             1, e)

\* x + y
FAdd(x, y) ==
    IF FIsZero(x) THEN y
    ELSE IF FIsZero(y) THEN x
    ELSE FAddAligned(x.sign, y.sign,
                     BigShl(x.man, x.exp - Min2(x.exp, y.exp)),
                     BigShl(y.man, y.exp - Min2(x.exp, y.exp)),
                     Min2(x.exp, y.exp))

\* x - y
FSub(x, y) == FAdd(x, FNeg(y))

\* x * y
FMul(x, y) == RoundRat(x.sign * y.sign, BigMul(x.man, y.man), 1, x.exp + y.exp)

\* x / d for an integer d # 0, |d| < Limb
FDivInt(x, d) == RoundRat(IF d < 0 THEN -x.sign ELSE x.sign, x.man, Abs(d), x.exp)

\* x * k for an integer k, |k| < Limb
FMulInt(x, k) ==
    RoundRat(IF k < 0 THEN -x.sign ELSE x.sign, BigMulSmall(x.man, Abs(k)), 1, x.exp)

\* a / b of two integers, a >= 0, 0 < b < Limb; also the float of the decimal
\* literal a / b.
FRatio(a, b) == RoundRat(1, BigOf(a), b, 0)

\* The sign of |x| - |y| for x, y # 0: mantissas have 53 bits, so the
\* exponent decides first.
FCmpAbs(x, y) ==
    IF x.exp > y.exp THEN 1
    ELSE IF x.exp < y.exp THEN -1
    ELSE BigCmp(x.man, y.man)

\* The sign of x - y: 1 when x > y, 0 when x == y, -1 when x < y.
FCmp(x, y) ==
    IF FIsZero(x) THEN (IF FIsZero(y) THEN 0 ELSE -y.sign)
    ELSE IF FIsZero(y) THEN x.sign
    ELSE IF x.sign # y.sign THEN x.sign
    ELSE x.sign * FCmpAbs(x, y)

\* min(k, x) and max(k, x) of Python for an integer k written first: x when
\* it is strictly smaller (larger), else k.
FMin(k, x) == IF FCmp(x, FOfInt(k)) < 0 THEN x ELSE FOfInt(k)

FMax(k, x) == IF FCmp(x, FOfInt(k)) > 0 THEN x ELSE FOfInt(k)

\* int(x): truncation towards zero.
FInt(x) ==
    IF FIsZero(x) THEN 0
    ELSE IF x.exp >= 0 THEN x.sign * BigToInt(BigShl(x.man, x.exp))
    ELSE x.sign * BigToInt(BigShr(x.man, -x.exp)[1])

\* The integer sign * (m + 1) when the half bit cut from m is set and either
\* a lower bit was or m is odd, else sign * m: mr is <<m, the half bit>>.
NearestEven(sign, mr, sticky) ==
    sign * (BigToInt(mr[1]) + IF mr[2] = 1 /\ (sticky \/ BigOdd(mr[1])) THEN 1 ELSE 0)

\* sh is <<twice the integer part, whether a lower bit is set>>.
NearestHalved(sign, sh) == NearestEven(sign, BigDivSmall(sh[1], 2), sh[2])

\* The integer nearest to x * 10^digits (10^digits < Limb), ties to even, of
\* the float's exact value: the decimal round(x, digits) returns, counted in
\* units of 10^-digits.
FRoundScaled(x, digits) ==
    IF FIsZero(x) THEN 0
    ELSE IF x.exp >= 0
    THEN x.sign * BigToInt(BigShl(BigMulSmall(x.man, 10^digits), x.exp))
    ELSE NearestHalved(x.sign, BigShr(BigMulSmall(x.man, 10^digits), -x.exp - 1))

\* Fault variant: the mean n / d, d > 0, is rounded down.
PyRoundDown(n, d) == FInt(FRatio(n, d))

\* round(n / d) of Python for integers n >= 0, d > 0: the float n / d, to
\* the nearest integer, ties to the even one.
PyRound(n, d) == FRoundScaled(FRatio(n, d), 0)

\* ----------------------------------------------------------------- images

\* A response body is identified by what PIL decodes it to: a pixel buffer
\* (mode, size, row-major pixels), or nothing when the bytes are no image.
EmptyBody == [parseable |-> FALSE, mode |-> "", w |-> 0, h |-> 0, px |-> <<>>]

\* 1 x 1, RGB
BodyA == [parseable |-> TRUE, mode |-> "RGB", w |-> 1, h |-> 1,
          px |-> << <<200, 100, 50>> >>]

\* 2 x 1, RGBA: converted to RGB by dropping the alpha band
BodyB == [parseable |-> TRUE, mode |-> "RGBA", w |-> 2, h |-> 1,
          px |-> << <<10, 20, 31, 255>>, <<255, 255, 255, 255>> >>]

Bodies == {EmptyBody, BodyA, BodyB}

\* img.convert("RGB")
ConvertRGB(img) ==
    [img EXCEPT !.mode = "RGB",
                !.px = [i \in DOMAIN img.px |-> SubSeq(img.px[i], 1, 3)]]

\* The pixel at (x, y) of img; PIL fills what lies outside the image with 0.
PixelAt(img, x, y) ==
    IF x >= 0 /\ x < img.w /\ y >= 0 /\ y < img.h
    THEN img.px[y * img.w + x + 1]
    ELSE <<0, 0, 0>>

\* Fault variant: a rectangle of no pixels is widened to one pixel.
CropAtLeastOne(img, box) ==
    LET cw == Max2(box[3] - box[1], 1)
        ch == Max2(box[4] - box[2], 1)
    IN  [parseable |-> TRUE, mode |-> img.mode, w |-> cw, h |-> ch,
         px |-> [i \in 1..(cw * ch) |->
                   PixelAt(img, box[1] + ((i - 1) % cw), box[2] + ((i - 1) \div cw))]]

\* Fault variant: the rectangle includes its right and lower edge, so a crop
\* reaching the image's edge samples the zero fill beyond it.
CropInclusive(img, box) ==
    LET cw == Max2(box[3] - box[1] + 1, 0)
        ch == Max2(box[4] - box[2] + 1, 0)
    IN  [parseable |-> TRUE, mode |-> img.mode, w |-> cw, h |-> ch,
         px |-> [i \in 1..(cw * ch) |->
                   PixelAt(img, box[1] + ((i - 1) % cw), box[2] + ((i - 1) \div cw))]]

\* img.crop((x0, y0, x1, y1)): the region's size is (x1 - x0, y1 - y0), zero
\* where that is negative.
Crop(img, box) ==
    LET cw == Max2(box[3] - box[1], 0)
        ch == Max2(box[4] - box[2], 0)
    IN  [parseable |-> TRUE, mode |-> img.mode, w |-> cw, h |-> ch,
         px |-> [i \in 1..(cw * ch) |->
                   PixelAt(img, box[1] + ((i - 1) % cw), box[2] + ((i - 1) \div cw))]]

RECURSIVE SumBand(_, _, _)
\* sum(pixel[band] for pixel in pixels[1..n])
SumBand(px, band, n) ==
    IF n = 0 THEN 0 ELSE px[n][band] + SumBand(px, band, n - 1)

\* The re-encoded frame: img.save(format="JPEG", quality=85), then base64.
JpegEncode(img) == [format |-> "JPEG", quality |-> 85, w |-> img.w, h |-> img.h,
                    px |-> img.px]

RECURSIVE FlattenPixels(_)
\* The bands of the pixels, one after the other.
FlattenPixels(px) ==
    IF Len(px) = 0 THEN <<>>
    ELSE <<px[1][1], px[1][2], px[1][3]>> \o FlattenPixels(Tail(px))

\* img_byte_array.getvalue(): the bytes of the saved file, a sequence of
\* values 0..255.  The model's file is the start-of-image marker, the
\* quality, the size, the pixels and the end-of-image marker.
FileBytes(jpeg) ==
    <<255, 216, jpeg.quality, jpeg.w, jpeg.h>> \o FlattenPixels(jpeg.px)
        \o <<255, 217>>

\* The image a file's bytes hold, in the model's layout.
ReadFile(bytes) ==
    LET w == bytes[4]
        h == bytes[5]
    IN  [format |-> IF SubSeq(bytes, 1, 2) = <<255, 216>> THEN "JPEG" ELSE "?",
         quality |-> bytes[3], w |-> w, h |-> h,
         px |-> [i \in 1..(w * h) |->
                   <<bytes[3 * i + 3], bytes[3 * i + 4], bytes[3 * i + 5]>>]]

\* The base64 alphabet of RFC 4648; "=" pads.
B64Alphabet ==
    Text("ABCDEFGHIJKLMNOPQRSTUVWXYZabcdefghijklmnopqrstuvwxyz0123456789+/")

\* The character of value i, as a text.
B64Char(i) == SubSeq(B64Alphabet, i + 1, i + 1)

RECURSIVE B64EncodeUnpadded(_)
\* Fault variant: the last group is written without its padding.
B64EncodeUnpadded(bytes) ==
    IF Len(bytes) = 0 THEN <<>>
    ELSE IF Len(bytes) = 1
    THEN B64Char(bytes[1] \div 4) \o B64Char((bytes[1] % 4) * 16)
    ELSE IF Len(bytes) = 2
    THEN B64Char(bytes[1] \div 4)
            \o B64Char((bytes[1] % 4) * 16 + bytes[2] \div 16)
            \o B64Char((bytes[2] % 16) * 4)
    ELSE B64Char(bytes[1] \div 4)
            \o B64Char((bytes[1] % 4) * 16 + bytes[2] \div 16)
            \o B64Char((bytes[2] % 16) * 4 + bytes[3] \div 64)
            \o B64Char(bytes[3] % 64)
            \o B64EncodeUnpadded(SubSeq(bytes, 4, Len(bytes)))

RECURSIVE B64Encode(_)
\* base64.b64encode(bytes).decode("utf-8"): each group of three bytes gives
\* four characters, a last group of one or two bytes is padded with "=".
B64Encode(bytes) ==
    IF Len(bytes) = 0 THEN <<>>
    ELSE IF Len(bytes) = 1
    THEN B64Char(bytes[1] \div 4) \o B64Char((bytes[1] % 4) * 16) \o Text("==")
    ELSE IF Len(bytes) = 2
    THEN B64Char(bytes[1] \div 4)
            \o B64Char((bytes[1] % 4) * 16 + bytes[2] \div 16)
            \o B64Char((bytes[2] % 16) * 4) \o Text("=")
    ELSE B64Char(bytes[1] \div 4)
            \o B64Char((bytes[1] % 4) * 16 + bytes[2] \div 16)
            \o B64Char((bytes[2] % 16) * 4 + bytes[3] \div 64)
            \o B64Char(bytes[3] % 64)
            \o B64Encode(SubSeq(bytes, 4, Len(bytes)))

\* The value of a character of the alphabet.
B64Index(ch) == CHOOSE i \in 0..63 : B64Char(i) = ch

\* Whether ch is one of the 64 characters of the alphabet.
B64IsChar(ch) == \E i \in 0..63 : B64Char(i) = ch

\* Whether str.encode("ascii") takes the text: b64decode raises ValueError
\* on a str with a character beyond U+007F.
IsAscii(text) == \A i \in 1..Len(text) : text[i] < 128

RECURSIVE B64Scan(_, _, _, _, _, _)
RECURSIVE B64Take(_, _, _, _, _, _)
\* The character of value c is the one at place quad_pos of its group of
\* four: from the second on it completes a byte with the bits left over.
B64Take(text, i, quad_pos, leftchar, bytes, c) ==
    B64Scan(text, i + 1, (quad_pos + 1) % 4,
            IF quad_pos = 0 THEN c
            ELSE IF quad_pos = 1 THEN c % 16
            ELSE IF quad_pos = 2 THEN c % 4
            ELSE 0,
            0,
            IF quad_pos = 0 THEN bytes
            ELSE IF quad_pos = 1 THEN Append(bytes, leftchar * 4 + c \div 16)
            ELSE IF quad_pos = 2 THEN Append(bytes, leftchar * 16 + c \div 4)
            ELSE Append(bytes, leftchar * 64 + c))

\* binascii.a2b_base64 as base64.b64decode(text) calls it (not strict), from
\* character i on: a character outside the alphabet is skipped; "=" is
\* skipped too, unless it completes the padding of a group that holds two or
\* three characters, where decoding stops and what follows is dropped; a
\* text that ends inside a group raises binascii.Error (ok is FALSE).  pads
\* counts the "=" met since the last character of the alphabet.
B64Scan(text, i, quad_pos, leftchar, pads, bytes) ==
    IF i > Len(text) THEN [ok |-> quad_pos = 0, bytes |-> bytes]
    ELSE IF SubSeq(text, i, i) = Text("=")
    THEN IF quad_pos >= 2 /\ quad_pos + pads + 1 >= 4
         THEN [ok |-> TRUE, bytes |-> bytes]
         ELSE B64Scan(text, i + 1, quad_pos, leftchar,
                      IF quad_pos >= 2 THEN pads + 1 ELSE pads, bytes)
    ELSE IF ~B64IsChar(SubSeq(text, i, i))
    THEN B64Scan(text, i + 1, quad_pos, leftchar, pads, bytes)
    ELSE B64Take(text, i, quad_pos, leftchar, bytes, B64Index(SubSeq(text, i, i)))

\* Whether base64.b64decode(text) returns, rather than raises.
B64Valid(text) == IsAscii(text) /\ B64Scan(text, 1, 0, 0, 0, <<>>).ok

\* base64.b64decode(text) of a text it accepts.
B64Decode(text) == B64Scan(text, 1, 0, 0, 0, <<>>).bytes

\* f"{r}, {g}, {b}"
RgbString(r, g, b) == ToString(r) \o ", " \o ToString(g) \o ", " \o ToString(b)

\* ------------------------------------------------------------------- state

VARIABLES
    configured,           \* the entries Home Assistant sets up in this run
    entryState,           \* ConfigEntryState of each entry
    setupResult,          \* what async_setup_entry last returned or raised
    registry,             \* hass.data[DOMAIN]: the entry ids holding a coordinator
    forwarded,            \* the platforms forwarded for each entry
    unloading,            \* the platforms an unload under way is unloading
    pc,                   \* where the coordinator's poll cycle stands
    data,                 \* coordinator.data, the cached result
    last_update_success,  \* coordinator.last_update_success
    last_exception,       \* coordinator.last_exception (class and message)
    image_url,            \* coordinator.image_url (hass_indoor_sun only)
    image_data,           \* the body the current (or last) cycle read
    job,                  \* the executor job the cycle in flight awaits
    orphans,              \* executor jobs still running that no cycle awaits any more
    timerArmed,           \* the coordinator's one-shot refresh timer is pending
    fetchCalls,           \* session.get calls made for the entry
    updateCalls,          \* _async_update_data invocations (cycles started)
    inFlight,             \* the coordinator's _async_update_data invocations not yet resolved
    cycle,                \* facts of the current (or last) cycle, for the properties
    bench,                \* one coordinator applied to one frame (AnalyzerSpec)
    flow,                 \* the set-up wizard: IndoorSunConfigFlow (FlowSpec)
    optionsFlow,          \* the last IndoorSunOptionsFlow submission (OptionsSpec)
    entry_data,           \* entry.data of the entry the wizard created
    entry_options,        \* entry.options of that entry
    coordinator           \* the coordinator constructed for that entry

hostVars == <<configured, entryState, setupResult, registry, forwarded, unloading>>

cacheVars == <<data, last_update_success, last_exception>>

\* What the polling actions leave alone: the analyzer bench and the flows.
asideVars == <<bench, flow, optionsFlow, entry_data, entry_options, coordinator>>

\* What the analyzer bench and the flows leave alone: the polling state.
cycleVars == <<configured, entryState, setupResult, registry, forwarded, unloading, pc, data,
               last_update_success, last_exception, image_url, image_data, job,
               orphans, timerArmed, fetchCalls, updateCalls, inFlight, cycle>>

vars == <<cycleVars, asideVars>>

\* ---------------------------------------------------------- config entries

\* The unset cache (coordinator.data is None).
NoData == [none |-> TRUE]

IsNone(d) == DOMAIN d = {"none"}

\* The entries set up from a stored configuration.
Entries == {"h1", "h2", "h3", "o1"}

\* The entry the set-up wizard creates: its data and options are what the
\* flows stored.
WizardEntry == "w"

AllEntries == Entries \cup {WizardEntry}

\* The integration an entry belongs to (DOMAIN of its package).
Domain(e) == IF e = "o1" THEN "indoor_sun" ELSE "hass_indoor_sun"

\* The URLs of the stored entries.
FrigateBaseUrl == Text("http://frigate:5000")

CamSnapshotUrl == Text("http://cam/snap.jpg")

\* entry.data, as the set-up wizard stores it.
EntryData(e) ==
    CASE e = WizardEntry -> entry_data
      [] e = "h1" ->
           [source_type |-> "frigate", base_url |-> FrigateBaseUrl,
            camera |-> "porch", scan_interval |-> 60,
            enable_image_entity |-> FALSE, protocol |-> "http",
            host |-> "frigate", port |-> 5000, camera_name |-> "porch"]
      [] e = "h2" ->
           [source_type |-> "snapshot", base_url |-> CamSnapshotUrl,
            camera |-> "snapshot", scan_interval |-> 30,
            enable_image_entity |-> TRUE, snapshot_url |-> CamSnapshotUrl,
            top_left_x |-> 1, top_left_y |-> 0,
            bottom_right_x |-> 2, bottom_right_y |-> 1]
      [] e = "h3" ->
           [source_type |-> "frigate", base_url |-> FrigateBaseUrl,
            camera |-> "yard", scan_interval |-> 60,
            enable_image_entity |-> FALSE, protocol |-> "http",
            host |-> "frigate", port |-> 5000, camera_name |-> "yard",
            top_left_x |-> 1, top_left_y |-> 1,
            bottom_right_x |-> 1, bottom_right_y |-> 1]
      [] OTHER ->
           [base_url |-> FrigateBaseUrl, camera |-> "porch",
            scan_interval |-> 60]

\* entry.options, as the options flow stores it.
EntryOptions(e) ==
    CASE e = WizardEntry -> entry_options
      [] e = "h2" -> [scan_interval |-> 10, enable_image_entity |-> TRUE]
      [] OTHER -> <<>>

CropKeys == {"top_left_x", "top_left_y", "bottom_right_x", "bottom_right_y"}

\* IndoorSunCoordinator.__init__ of hass_indoor_sun: the attributes read from
\* the merged configuration.  crop_coordinates is <<>> for None.
HassCoordinatorInit(entryData, entryOptions) ==
    LET merged == Merge(entryData, entryOptions)
    IN  [source_type |-> Get(merged, "source_type", "frigate"),
         base_url |-> merged["base_url"],
         camera |-> merged["camera"],
         scan_interval |-> Get(merged, "scan_interval", 60),
         enable_image_entity |-> Get(merged, "enable_image_entity", FALSE),
         crop_coordinates |->
             IF \A k \in CropKeys : Has(merged, k)
             THEN <<merged["top_left_x"], merged["top_left_y"],
                    merged["bottom_right_x"], merged["bottom_right_y"]>>
             ELSE <<>>,
         brightness_adjustment_enabled |->
             Get(merged, "enable_brightness_adjustment", FALSE),
         min_brightness |-> Get(merged, "min_brightness", 0),
         max_brightness |-> Get(merged, "max_brightness", 100),
         color_adjustment_enabled |-> Get(merged, "enable_color_adjustment", FALSE),
         min_color |-> <<Get(merged, "min_color_r", 0), Get(merged, "min_color_g", 0),
                         Get(merged, "min_color_b", 0)>>,
         max_color |-> <<Get(merged, "max_color_r", 255), Get(merged, "max_color_g", 255),
                         Get(merged, "max_color_b", 255)>>]

\* IndoorSunCoordinator.__init__ of indoor_sun: entry.data only.
OldCoordinatorInit(entryData) ==
    [base_url |-> entryData["base_url"],
     camera |-> entryData["camera"],
     scan_interval |-> Get(entryData, "scan_interval", 60)]

\* The coordinator object async_setup_entry constructs for entry e, from
\* the entry as it is.
NewCoordinator(e) ==
    IF Domain(e) = "hass_indoor_sun"
    THEN HassCoordinatorInit(EntryData(e), EntryOptions(e))
    ELSE OldCoordinatorInit(EntryData(e))

\* The coordinator of entry e: the object its last set-up constructed (the
\* stored entries never change, the wizard's entry does).
Coordinator(e) == IF e = WizardEntry THEN coordinator ELSE NewCoordinator(e)

\* ------------------------------------------------------------ the analyzer

\* What a call returns or raises.
Returned(v) == [ok |-> TRUE, value |-> v, exc |-> "", err |-> "", cause |-> ""]

Raised(exc, msg) ==
    [ok |-> FALSE, value |-> NoData, exc |-> exc, err |-> msg, cause |-> ""]

\* raise exc(msg) from err
RaisedFrom(exc, msg, err) ==
    [ok |-> FALSE, value |-> NoData, exc |-> exc, err |-> msg, cause |-> err.exc]

\* The image _process_image samples: decoded, converted to RGB, cropped.
SampledImage(c, body) ==
    LET rgb == IF body.mode # "RGB" THEN ConvertRGB(body) ELSE body
    IN  IF Len(c.crop_coordinates) > 0 THEN Crop(rgb, c.crop_coordinates) ELSE rgb

\* The literals 0.2126, 0.7152 and 0.0722.
LumaR == FRatio(2126, 10000)

LumaG == FRatio(7152, 10000)

LumaB == FRatio(722, 10000)

\* Fault variant: the luminance is taken with the BT.601 coefficients
\* 0.299, 0.587, 0.114.
BrightnessPercentBT601(tr, tg, tb, n) ==
    LET brightness_y ==
            FAdd(FAdd(FMul(FRatio(299, 1000), FRatio(tr, n)),
                      FMul(FRatio(587, 1000), FRatio(tg, n))),
                 FMul(FRatio(114, 1000), FRatio(tb, n)))
    IN  FMulInt(FDivInt(brightness_y, 255), 100)

\* brightness_percent, the float, from the band totals of n pixels:
\* avg = total / total_pixels;
\* brightness_y = 0.2126 * avg_r + 0.7152 * avg_g + 0.0722 * avg_b;
\* brightness_percent = (brightness_y / 255) * 100.
BrightnessPercent(tr, tg, tb, n) ==
    LET brightness_y ==
            FAdd(FAdd(FMul(LumaR, FRatio(tr, n)), FMul(LumaG, FRatio(tg, n))),
                 FMul(LumaB, FRatio(tb, n)))
    IN  FMulInt(FDivInt(brightness_y, 255), 100)

\* Fault variant: the rescaled brightness is not clamped.
AdjustBrightnessUnclamped(bp, lo, span) ==
    FMulInt(FDivInt(FSub(bp, FOfInt(lo)), span), 100)

\* Fault variant: the range is taken as the output range, as the unused
\* _apply_brightness_adjustment does:
\* max(0, min(100, min_brightness + brightness / 100 * span)).
AdjustBrightnessOutputRange(bp, lo, span) ==
    FMax(0, FMin(100, FAdd(FOfInt(lo), FMulInt(FDivInt(bp, 100), span))))

\* max(0, min(100, (brightness_percent - min_brightness) / span * 100)),
\* for span > 0.
AdjustBrightness(bp, lo, span) ==
    FMax(0, FMin(100, FMulInt(FDivInt(FSub(bp, FOfInt(lo)), span), 100)))

\* round(brightness_percent, 2), in hundredths of a percent.
RoundHundredths(bp) == FRoundScaled(bp, 2)

\* Fault variant: the range is taken as the output range, as the unused
\* _apply_color_adjustment does: int(max(0, min(255, vmin + v / 255 * span))).
ScaleOutputRange(total, n, vmin, vmax) ==
    FInt(FMax(0, FMin(255, FAdd(FOfInt(vmin),
                                FMulInt(FDivInt(FRatio(total, n), 255),
                                        vmax - vmin)))))

\* scale(v, vmin, vmax) of the colour adjustment, for the float v = total / n:
\* max(0, min(255, int((v - vmin) / span * 255))) if span else int(v).
Scale(total, n, vmin, vmax) ==
    LET span == vmax - vmin
        v == FRatio(total, n)
    IN  IF span # 0
        THEN Max2(0, Min2(255,
                 FInt(FMulInt(FDivInt(FSub(v, FOfInt(vmin)), span), 255))))
        ELSE FInt(v)

\* _apply_brightness_adjustment(brightness), which nothing calls:
\* normalized = brightness / 100.0;
\* float(max(0.0, min(100.0, min_brightness + normalized * span))).
ApplyBrightnessAdjustment(c, bp) ==
    LET normalized == FDivInt(bp, 100)
        adjusted == FAdd(FOfInt(c.min_brightness),
                         FMulInt(normalized, c.max_brightness - c.min_brightness))
    IN  FMax(0, FMin(100, adjusted))

\* _apply_color_adjustment(value, min_val, max_val), which nothing calls:
\* normalized = value / 255.0;
\* float(max(0.0, min(255.0, min_val + normalized * (max_val - min_val)))).
ApplyColorAdjustment(v, min_val, max_val) ==
    LET normalized == FDivInt(v, 255)
        adjusted == FAdd(FOfInt(min_val), FMulInt(normalized, max_val - min_val))
    IN  FMax(0, FMin(255, adjusted))

\* Fault variant: bytes that are no image yield an all-zero result.
HassBuildResultDefaulting(c, body) ==
    Returned([brightness |-> 0, r |-> 0, g |-> 0, b |-> 0,
              rgb_string |-> RgbString(0, 0, 0),
              source_type |-> c.source_type,
              cropped |-> Len(c.crop_coordinates) > 0,
              brightness_adjusted |-> c.brightness_adjustment_enabled,
              color_adjusted |-> c.color_adjustment_enabled])

\* Fault variant: the adjustments are chained, the brightness being computed
\* from the colour-adjusted channels.
HassBuildResultChained(c, body) ==
    IF ~body.parseable THEN Raised("UnidentifiedImageError", "cannot identify image file")
    ELSE
    LET img == SampledImage(c, body)
        n == Len(img.px)
        tr == SumBand(img.px, 1, n)
        tg == SumBand(img.px, 2, n)
        tb == SumBand(img.px, 3, n)
        r == IF c.color_adjustment_enabled
             THEN Scale(tr, n, c.min_color[1], c.max_color[1]) ELSE PyRound(tr, n)
        g == IF c.color_adjustment_enabled
             THEN Scale(tg, n, c.min_color[2], c.max_color[2]) ELSE PyRound(tg, n)
        b == IF c.color_adjustment_enabled
             THEN Scale(tb, n, c.min_color[3], c.max_color[3]) ELSE PyRound(tb, n)
        raw == IF c.color_adjustment_enabled
               THEN BrightnessPercent(r, g, b, 1)
               ELSE BrightnessPercent(tr, tg, tb, n)
        span == c.max_brightness - c.min_brightness
        bp == IF c.brightness_adjustment_enabled /\ span > 0
              THEN AdjustBrightness(raw, c.min_brightness, span)
              ELSE raw
    IN  IF n = 0 THEN Raised("ZeroDivisionError", "division by zero")
        ELSE Returned([brightness |-> RoundHundredths(bp),
                       r |-> r, g |-> g, b |-> b,
                       rgb_string |-> RgbString(r, g, b),
                       source_type |-> c.source_type,
                       cropped |-> Len(c.crop_coordinates) > 0,
                       brightness_adjusted |-> c.brightness_adjustment_enabled,
                       color_adjusted |-> c.color_adjustment_enabled])

\* hass_indoor_sun _process_image up to the result dict (the re-encoded
\* image is attached afterwards).  brightness is in hundredths of a percent.
HassBuildResult(c, body) ==
    IF ~body.parseable THEN Raised("UnidentifiedImageError", "cannot identify image file")
    ELSE
    LET img == SampledImage(c, body)
        n == Len(img.px)
        tr == SumBand(img.px, 1, n)
        tg == SumBand(img.px, 2, n)
        tb == SumBand(img.px, 3, n)
        raw == BrightnessPercent(tr, tg, tb, n)
        span == c.max_brightness - c.min_brightness
        bp == IF c.brightness_adjustment_enabled /\ span > 0
              THEN AdjustBrightness(raw, c.min_brightness, span)
              ELSE raw
        r == IF c.color_adjustment_enabled
             THEN Scale(tr, n, c.min_color[1], c.max_color[1]) ELSE PyRound(tr, n)
        g == IF c.color_adjustment_enabled
             THEN Scale(tg, n, c.min_color[2], c.max_color[2]) ELSE PyRound(tg, n)
        b == IF c.color_adjustment_enabled
             THEN Scale(tb, n, c.min_color[3], c.max_color[3]) ELSE PyRound(tb, n)
    IN  IF n = 0 THEN Raised("ZeroDivisionError", "division by zero")
        ELSE Returned([brightness |-> RoundHundredths(bp),
                       r |-> r, g |-> g, b |-> b,
                       rgb_string |-> RgbString(r, g, b),
                       source_type |-> c.source_type,
                       cropped |-> Len(c.crop_coordinates) > 0,
                       brightness_adjusted |-> c.brightness_adjustment_enabled,
                       color_adjusted |-> c.color_adjustment_enabled])

\* result["image_data"] = base64 of the sampled image saved as JPEG.
AttachImageData(c, result, body) ==
    Merge(result,
          [image_data |-> B64Encode(FileBytes(JpegEncode(SampledImage(c, body))))])

\* Fault variant: the re-encoded image is attached to every result.
HassProcessImageAlways(c, body) ==
    LET built == HassBuildResult(c, body)
    IN  IF built.ok THEN Returned(AttachImageData(c, built.value, body)) ELSE built

\* hass_indoor_sun _process_image as a whole.
HassProcessImage(c, body) ==
    LET built == HassBuildResult(c, body)
    IN  IF built.ok /\ c.enable_image_entity
        THEN Returned(AttachImageData(c, built.value, body))
        ELSE built

\* indoor_sun _process_image.
OldProcessImage(body) ==
    IF ~body.parseable THEN Raised("UnidentifiedImageError", "cannot identify image file")
    ELSE
    LET img == IF body.mode # "RGB" THEN ConvertRGB(body) ELSE body
        n == Len(img.px)
        tr == SumBand(img.px, 1, n)
        tg == SumBand(img.px, 2, n)
        tb == SumBand(img.px, 3, n)
        bp == BrightnessPercent(tr, tg, tb, n)
    IN  IF n = 0 THEN Raised("ZeroDivisionError", "division by zero")
        ELSE Returned([brightness |-> RoundHundredths(bp),
                       r |-> PyRound(tr, n), g |-> PyRound(tg, n),
                       b |-> PyRound(tb, n),
                       rgb_string |-> RgbString(PyRound(tr, n), PyRound(tg, n),
                                                PyRound(tb, n))])

\* ------------------------------------------------------------ cycle state

Statuses == {200, 204, 404, 500}

InFlightStates == {"FETCHING", "READING", "PROCESSING"}

NoJob == [stage |-> "none", out |-> Returned(NoData)]

NoException == [exc |-> "", err |-> "", cause |-> ""]

NoCycle == [first |-> FALSE, startData |-> NoData, startOk |-> TRUE,
            status |-> 0, bodyRead |-> FALSE, analyzed |-> FALSE,
            analyzerReturned |-> FALSE]

\* No coordinator exists yet: nothing was set up and nothing polled.
CycleIdle ==
    /\ entryState = [e \in AllEntries |-> "NOT_LOADED"]
    /\ setupResult = [e \in AllEntries |-> "none"]
    /\ registry = {}
    /\ forwarded = [e \in AllEntries |-> {}]
    /\ unloading = [e \in AllEntries |-> {}]
    /\ pc = [e \in AllEntries |-> "IDLE"]
    /\ data = [e \in AllEntries |-> NoData]
    /\ last_update_success = [e \in AllEntries |-> TRUE]
    /\ last_exception = [e \in AllEntries |-> NoException]
    /\ image_url = [e \in AllEntries |-> NoText]
    /\ image_data = [e \in AllEntries |-> EmptyBody]
    /\ job = [e \in AllEntries |-> NoJob]
    /\ orphans = [e \in AllEntries |-> 0]
    /\ timerArmed = [e \in AllEntries |-> FALSE]
    /\ fetchCalls = [e \in AllEntries |-> 0]
    /\ updateCalls = [e \in AllEntries |-> 0]
    /\ inFlight = [e \in AllEntries |-> 0]
    /\ cycle = [e \in AllEntries |-> NoCycle]

\* No test request of the wizard is under way.
NoTestRequests == [get |-> 0, read |-> 0]

\* IndoorSunConfigFlow.__init__: nothing accumulated, nothing tested.
\* test_requests counts the test requests of the flow that are suspended in
\* session.get and in response.read.
NewFlow ==
    [step |-> "user", config_data |-> <<>>, errors |-> <<>>,
     test_image_data |-> NoData, test_image_url |-> NoText,
     test_requests |-> NoTestRequests]

\* No frame on the bench.
NoBench ==
    [stage |-> "none", data |-> <<>>, body |-> EmptyBody, url |-> NoText,
     out |-> Returned(NoData), old |-> Returned(NoData)]

\* No wizard was started and no entry created.
FlowIdle ==
    /\ flow = NewFlow
    /\ optionsFlow = [submitted |-> FALSE, errors |-> <<>>]
    /\ entry_data = NoData
    /\ entry_options = <<>>
    /\ coordinator = NoData

Init ==
    /\ configured \in {{e} : e \in Entries}
    /\ CycleIdle
    /\ bench = NoBench
    /\ FlowIdle

\* ------------------------------------------------- the cycle's pure pieces

\* Fault variant: the Frigate path is requested whatever the source is.
HassRequestUrlFrigateOnly(c) == c.base_url \o Text("/api/") \o Text(c.camera) \o Text("/latest.jpg")

\* The URL _fetch_and_process_frame requests (hass_indoor_sun).
HassRequestUrl(c) ==
    IF c.source_type = "frigate"
    THEN c.base_url \o Text("/api/") \o Text(c.camera) \o Text("/latest.jpg")
    ELSE c.base_url

\* The URL _fetch_and_process_frame requests (indoor_sun).
OldRequestUrl(c) == c.base_url \o Text("/api/") \o Text(c.camera) \o Text("/latest.jpg")

RequestUrl(e) ==
    IF Domain(e) = "hass_indoor_sun" THEN HassRequestUrl(Coordinator(e))
    ELSE OldRequestUrl(Coordinator(e))

\* Fault variant: only 4xx and 5xx statuses are refused.
HassStatusOkBelow400(status) == status < 400

\* if response.status != 200: raise UpdateFailed(...)
HassStatusOk(status) == status = 200

OldStatusOk(status) == status = 200

StatusOk(e, status) ==
    IF Domain(e) = "hass_indoor_sun" THEN HassStatusOk(status) ELSE OldStatusOk(status)

BadStatus(status) ==
    Raised("UpdateFailed", "Failed to fetch frame: HTTP " \o ToString(status))

\* hass_indoor_sun: the except clause around session.get / response.read.
HassFetchExcept(raised) ==
    RaisedFrom("UpdateFailed", "Network error: " \o raised.err, raised)

\* What an exception raised while fetching has become when it leaves
\* _fetch_and_process_frame.
FetchRaised(e, raised) ==
    IF Domain(e) = "hass_indoor_sun" THEN HassFetchExcept(raised) ELSE raised

\* Fault variant: the except clause re-raises what it caught.
HassUpdateDataReraising(outcome) == outcome

\* _async_update_data: return what _fetch_and_process_frame returned, or
\* raise UpdateFailed from whatever it (or the timeout) raised.
HassUpdateData(outcome) ==
    IF outcome.ok THEN outcome
    ELSE RaisedFrom("UpdateFailed",
                    "Error communicating with camera: " \o outcome.err, outcome)

OldUpdateData(outcome) ==
    IF outcome.ok THEN outcome
    ELSE RaisedFrom("UpdateFailed",
                    "Error communicating with Frigate: " \o outcome.err, outcome)

UpdateData(e, outcome) ==
    IF Domain(e) = "hass_indoor_sun" THEN HassUpdateData(outcome)
    ELSE OldUpdateData(outcome)

\* _process_image, run by the executor job, in its two stages.
BuildResult(e, body) ==
    IF Domain(e) = "hass_indoor_sun" THEN HassBuildResult(Coordinator(e), body)
    ELSE OldProcessImage(body)

EncodesImage(e) ==
    Domain(e) = "hass_indoor_sun" /\ Coordinator(e).enable_image_entity

ProcessImage(e, body) ==
    IF Domain(e) = "hass_indoor_sun" THEN HassProcessImage(Coordinator(e), body)
    ELSE OldProcessImage(body)

\* Fault variant: a periodic timer, pending whatever the refresh does.
TimerAfterPeriodic(phase, listening) == listening

\* The refresh timer: the tick that starts a refresh consumes it, and the
\* base class arms it again only when the refresh has resolved and entities
\* listen (update_interval is handed to the base class, nothing else in the
\* integration schedules a refresh).
TimerAfter(phase, listening) == phase = "resolved" /\ listening

\* ----------------------------------------------------------------- actions

\* The refresh begins: _async_update_data enters the timeout and
\* _fetch_and_process_frame runs up to its first await, session.get(url).
StartCycle(e) ==
    /\ pc' = [pc EXCEPT ![e] = "FETCHING"]
    /\ image_url' = IF Domain(e) = "hass_indoor_sun"
                    THEN [image_url EXCEPT ![e] = RequestUrl(e)]
                    ELSE image_url
    /\ fetchCalls' = [fetchCalls EXCEPT ![e] = @ + 1]
    /\ updateCalls' = [updateCalls EXCEPT ![e] = @ + 1]
    /\ inFlight' = [inFlight EXCEPT ![e] = @ + 1]
    /\ timerArmed' = [timerArmed EXCEPT ![e] = TimerAfter("started", TRUE)]
    /\ UNCHANGED <<image_data, job, orphans>>

\* Fault variant: a failed refresh drops the cached result.
FinishRefreshClearing(e, outcome) ==
    /\ pc' = [pc EXCEPT ![e] = IF outcome.ok THEN "PUBLISHED" ELSE "FAILED"]
    /\ data' = [data EXCEPT ![e] = outcome.value]
    /\ last_update_success' = [last_update_success EXCEPT ![e] = outcome.ok]
    /\ last_exception' =
           IF outcome.ok THEN last_exception
           ELSE [last_exception EXCEPT ![e] =
                    [exc |-> outcome.exc, err |-> outcome.err, cause |-> outcome.cause]]
    /\ inFlight' = [inFlight EXCEPT ![e] = @ - 1]
    /\ job' = [job EXCEPT ![e] = NoJob]

\* The refresh resolves with `outcome`, what _async_update_data returned or
\* raised: the base class stores a returned value and sets
\* last_update_success, or keeps the cache and records the exception.
FinishRefresh(e, outcome) ==
    /\ pc' = [pc EXCEPT ![e] = IF outcome.ok THEN "PUBLISHED" ELSE "FAILED"]
    /\ data' = IF outcome.ok THEN [data EXCEPT ![e] = outcome.value] ELSE data
    /\ last_update_success' = [last_update_success EXCEPT ![e] = outcome.ok]
    /\ last_exception' =
           IF outcome.ok THEN last_exception
           ELSE [last_exception EXCEPT ![e] =
                    [exc |-> outcome.exc, err |-> outcome.err, cause |-> outcome.cause]]
    /\ inFlight' = [inFlight EXCEPT ![e] = @ - 1]
    /\ job' = [job EXCEPT ![e] = NoJob]

\* Fault variant: the first refresh does not record the URL it requests.
SetupEntryUrlUnset(e) ==
    /\ e \in configured
    /\ entryState[e] \in {"NOT_LOADED", "SETUP_RETRY"}
    /\ fetchCalls[e] < MaxCycles
    /\ coordinator' = IF e = WizardEntry THEN NewCoordinator(e) ELSE coordinator
    /\ entryState' = [entryState EXCEPT ![e] = "SETUP_IN_PROGRESS"]
    /\ data' = [data EXCEPT ![e] = NoData]
    /\ last_update_success' = [last_update_success EXCEPT ![e] = TRUE]
    /\ last_exception' = [last_exception EXCEPT ![e] = NoException]
    /\ cycle' = [cycle EXCEPT ![e] = [NoCycle EXCEPT !.first = TRUE]]
    /\ pc' = [pc EXCEPT ![e] = "FETCHING"]
    /\ fetchCalls' = [fetchCalls EXCEPT ![e] = @ + 1]
    /\ updateCalls' = [updateCalls EXCEPT ![e] = @ + 1]
    /\ inFlight' = [inFlight EXCEPT ![e] = 1]
    /\ job' = [job EXCEPT ![e] = NoJob]
    /\ orphans' = [orphans EXCEPT ![e] =
                     IF job[e].stage \in {"queued", "built"} THEN @ + 1 ELSE @]
    /\ timerArmed' = [timerArmed EXCEPT ![e] = FALSE]
    /\ UNCHANGED <<bench, flow, optionsFlow, entry_data, entry_options, configured,
                   setupResult, registry, forwarded, unloading, image_data,
                   image_url>>

\* async_setup_entry up to its first await: the coordinator is constructed
\* from the entry as it is and the first refresh begins.  The cycle
\* variables describe the new coordinator from here on: a refresh that the
\* coordinator of an earlier set-up still has in flight goes on with that
\* object, to which nothing refers any more, and an executor job of it that
\* has not finished keeps running on its thread.
SetupEntry(e) ==
    /\ e \in configured
    /\ entryState[e] \in {"NOT_LOADED", "SETUP_RETRY"}
    /\ fetchCalls[e] < MaxCycles
    /\ coordinator' = IF e = WizardEntry THEN NewCoordinator(e) ELSE coordinator
    /\ entryState' = [entryState EXCEPT ![e] = "SETUP_IN_PROGRESS"]
    /\ data' = [data EXCEPT ![e] = NoData]
    /\ last_update_success' = [last_update_success EXCEPT ![e] = TRUE]
    /\ last_exception' = [last_exception EXCEPT ![e] = NoException]
    /\ cycle' = [cycle EXCEPT ![e] = [NoCycle EXCEPT !.first = TRUE]]
    /\ pc' = [pc EXCEPT ![e] = "FETCHING"]
    /\ image_url' = IF Domain(e) = "hass_indoor_sun"
                    THEN [image_url EXCEPT ![e] = HassRequestUrl(NewCoordinator(e))]
                    ELSE image_url
    /\ fetchCalls' = [fetchCalls EXCEPT ![e] = @ + 1]
    /\ updateCalls' = [updateCalls EXCEPT ![e] = @ + 1]
    /\ inFlight' = [inFlight EXCEPT ![e] = 1]
    /\ job' = [job EXCEPT ![e] = NoJob]
    /\ orphans' = [orphans EXCEPT ![e] =
                     IF job[e].stage \in {"queued", "built"} THEN @ + 1 ELSE @]
    /\ timerArmed' = [timerArmed EXCEPT ![e] = FALSE]
    /\ UNCHANGED <<bench, flow, optionsFlow, entry_data, entry_options, configured,
                   setupResult, registry, forwarded, unloading, image_data>>

\* The refresh timer fires.
Tick(e) ==
    /\ timerArmed[e]
    /\ fetchCalls[e] < MaxCycles
    /\ cycle' = [cycle EXCEPT ![e] = [NoCycle EXCEPT
                                        !.startData = data[e],
                                        !.startOk = last_update_success[e]]]
    /\ StartCycle(e)
    /\ UNCHANGED <<asideVars, hostVars, cacheVars>>

\* The response's status line arrives.
ResponseStatus(e, status) ==
    /\ pc[e] = "FETCHING"
    /\ cycle' = [cycle EXCEPT ![e].status = status]
    /\ IF StatusOk(e, status)
       THEN /\ pc' = [pc EXCEPT ![e] = "READING"]
            /\ UNCHANGED <<cacheVars, inFlight, job>>
       ELSE FinishRefresh(e, UpdateData(e, FetchRaised(e, BadStatus(status))))
    /\ UNCHANGED <<asideVars, hostVars, image_url, image_data, orphans, timerArmed, fetchCalls, updateCalls>>

\* Fault variant: a request that fails is issued once more before the cycle
\* is given up.
FetchErrorRetrying(e) ==
    /\ pc[e] \in {"FETCHING", "READING"}
    /\ IF fetchCalls[e] = updateCalls[e]
       THEN /\ fetchCalls' = [fetchCalls EXCEPT ![e] = @ + 1]
            /\ pc' = [pc EXCEPT ![e] = "FETCHING"]
            /\ UNCHANGED <<cacheVars, inFlight, job>>
       ELSE /\ FinishRefresh(e, UpdateData(e,
                   FetchRaised(e, Raised("ClientError", "Cannot connect to host"))))
            /\ UNCHANGED fetchCalls
    /\ UNCHANGED <<asideVars, hostVars, image_url, image_data, orphans, timerArmed,
                   updateCalls, cycle>>

\* session.get or response.read raises (connection refused, reset, ...).
FetchError(e) ==
    /\ pc[e] \in {"FETCHING", "READING"}
    /\ FinishRefresh(e, UpdateData(e,
           FetchRaised(e, Raised("ClientError", "Cannot connect to host"))))
    /\ UNCHANGED <<asideVars, hostVars, image_url, image_data, orphans, timerArmed, fetchCalls, updateCalls,
                   cycle>>

\* response.read() returns the body; _process_image is handed to the executor.
ReadBody(e, body) ==
    /\ pc[e] = "READING"
    /\ pc' = [pc EXCEPT ![e] = "PROCESSING"]
    /\ image_data' = [image_data EXCEPT ![e] = body]
    /\ job' = [job EXCEPT ![e] = [stage |-> "queued", out |-> Returned(NoData)]]
    /\ cycle' = [cycle EXCEPT ![e].bodyRead = TRUE, ![e].analyzed = TRUE]
    /\ UNCHANGED <<asideVars, hostVars, cacheVars, image_url, orphans, timerArmed, fetchCalls, updateCalls,
                   inFlight>>

\* Fault variant: the executor thread builds its result in the cache itself.
JobRunSharing(e) ==
    /\ job[e].stage = "queued"
    /\ LET built == BuildResult(e, image_data[e])
       IN  /\ job' = [job EXCEPT ![e] =
                        [stage |-> IF ~built.ok THEN "raised"
                                   ELSE IF EncodesImage(e) THEN "built" ELSE "done",
                         out |-> built]]
           /\ data' = IF built.ok THEN [data EXCEPT ![e] = built.value] ELSE data
           /\ cycle' = [cycle EXCEPT ![e].analyzerReturned =
                                         built.ok /\ ~EncodesImage(e)]
    /\ UNCHANGED <<asideVars, hostVars, last_update_success, last_exception, pc, image_url,
                   image_data, orphans, timerArmed, fetchCalls, updateCalls, inFlight>>

\* The executor thread runs _process_image up to the result dict.
JobRun(e) ==
    /\ job[e].stage = "queued"
    /\ LET built == BuildResult(e, image_data[e])
       IN  /\ job' = [job EXCEPT ![e] =
                        [stage |-> IF ~built.ok THEN "raised"
                                   ELSE IF EncodesImage(e) THEN "built" ELSE "done",
                         out |-> built]]
           /\ cycle' = [cycle EXCEPT ![e].analyzerReturned =
                                         built.ok /\ ~EncodesImage(e)]
    /\ UNCHANGED <<asideVars, hostVars, cacheVars, pc, image_url, image_data, orphans,
                   timerArmed, fetchCalls, updateCalls, inFlight>>

\* The executor thread attaches the re-encoded image and returns.
JobEncode(e) ==
    /\ job[e].stage = "built"
    /\ job' = [job EXCEPT ![e] =
                 [stage |-> "done",
                  out |-> Returned(AttachImageData(Coordinator(e), job[e].out.value,
                                                   image_data[e]))]]
    /\ cycle' = [cycle EXCEPT ![e].analyzerReturned = TRUE]
    /\ UNCHANGED <<asideVars, hostVars, cacheVars, pc, image_url, image_data, orphans,
                   timerArmed, fetchCalls, updateCalls, inFlight>>

\* Fault variant: the result dict is handed over before the image is attached.
PublishEarly(e) ==
    /\ pc[e] = "PROCESSING"
    /\ job[e].stage \in {"built", "done"}
    /\ FinishRefresh(e, UpdateData(e, job[e].out))
    /\ UNCHANGED <<asideVars, hostVars, image_url, image_data, orphans, timerArmed, fetchCalls, updateCalls,
                   cycle>>

\* The awaiting coroutine resumes with the job's result and returns it.
Publish(e) ==
    /\ pc[e] = "PROCESSING"
    /\ job[e].stage = "done"
    /\ FinishRefresh(e, UpdateData(e, job[e].out))
    /\ UNCHANGED <<asideVars, hostVars, image_url, image_data, orphans, timerArmed, fetchCalls, updateCalls,
                   cycle>>

\* The awaiting coroutine resumes with the exception the job raised.
JobRaised(e) ==
    /\ pc[e] = "PROCESSING"
    /\ job[e].stage = "raised"
    /\ FinishRefresh(e, UpdateData(e, job[e].out))
    /\ UNCHANGED <<asideVars, hostVars, image_url, image_data, orphans, timerArmed, fetchCalls, updateCalls,
                   cycle>>

\* Fault variant: the timeout encloses the request only.
TimeoutFetchOnly(e) ==
    /\ pc[e] \in {"FETCHING", "READING"}
    /\ FinishRefresh(e, UpdateData(e, Raised("TimeoutError", "")))
    /\ UNCHANGED <<asideVars, hostVars, image_url, image_data, orphans, timerArmed, fetchCalls, updateCalls,
                   cycle>>

\* async_timeout.timeout(10) expires while _fetch_and_process_frame is
\* suspended: the await is cancelled and TimeoutError is raised inside the
\* try of _async_update_data.  An executor job that has not finished keeps
\* running on its thread.
Timeout(e) ==
    /\ pc[e] \in InFlightStates
    /\ orphans' = [orphans EXCEPT ![e] =
                     IF job[e].stage \in {"queued", "built"} THEN @ + 1 ELSE @]
    /\ FinishRefresh(e, UpdateData(e, Raised("TimeoutError", "")))
    /\ UNCHANGED <<asideVars, hostVars, image_url, image_data, timerArmed, fetchCalls, updateCalls, cycle>>

\* An abandoned executor job runs to its end; its result is dropped.
OrphanDone(e) ==
    /\ orphans[e] > 0
    /\ orphans' = [orphans EXCEPT ![e] = @ - 1]
    /\ UNCHANGED <<asideVars, hostVars, cacheVars, pc, image_url, image_data, job, timerArmed,
                   fetchCalls, updateCalls, inFlight, cycle>>

\* Fault variant: a failed refresh is followed at once by another request.
RearmRetrying(e) ==
    /\ entryState[e] # "SETUP_IN_PROGRESS"
    /\ pc[e] \in {"PUBLISHED", "FAILED"}
    /\ IF pc[e] = "FAILED" /\ fetchCalls[e] < MaxCycles
       THEN /\ pc' = [pc EXCEPT ![e] = "FETCHING"]
            /\ fetchCalls' = [fetchCalls EXCEPT ![e] = @ + 1]
            /\ updateCalls' = [updateCalls EXCEPT ![e] = @ + 1]
            /\ inFlight' = [inFlight EXCEPT ![e] = @ + 1]
            /\ cycle' = [cycle EXCEPT ![e] = [NoCycle EXCEPT
                                                !.startData = data[e],
                                                !.startOk = last_update_success[e]]]
            /\ UNCHANGED timerArmed
       ELSE /\ pc' = [pc EXCEPT ![e] = "IDLE"]
            /\ timerArmed' = [timerArmed EXCEPT ![e] = TRUE]
            /\ UNCHANGED <<fetchCalls, updateCalls, inFlight, cycle>>
    /\ UNCHANGED <<asideVars, hostVars, cacheVars, image_url, image_data, job, orphans>>

\* Fault variant: the timer is armed again only after a successful refresh.
RearmOnlyOnSuccess(e) ==
    /\ entryState[e] # "SETUP_IN_PROGRESS"
    /\ pc[e] \in {"PUBLISHED", "FAILED"}
    /\ pc' = [pc EXCEPT ![e] = "IDLE"]
    /\ timerArmed' = [timerArmed EXCEPT ![e] = (pc[e] = "PUBLISHED")]
    /\ UNCHANGED <<asideVars, hostVars, cacheVars, image_url, image_data, job, orphans,
                   fetchCalls, updateCalls, inFlight, cycle>>

\* A scheduled refresh ends: the base class's finally clause arms the timer
\* for the next regular tick, when entities of the entry still listen.
Rearm(e) ==
    /\ entryState[e] # "SETUP_IN_PROGRESS"
    /\ pc[e] \in {"PUBLISHED", "FAILED"}
    /\ pc' = [pc EXCEPT ![e] = "IDLE"]
    /\ timerArmed' = [timerArmed EXCEPT ![e] =
                         TimerAfter("resolved", forwarded[e] # {})]
    /\ UNCHANGED <<asideVars, hostVars, cacheVars, image_url, image_data, job, orphans,
                   fetchCalls, updateCalls, inFlight, cycle>>

\* Fault variant: the coordinator is stored whatever the first refresh did.
HassSetupContinueStoring(e) ==
    /\ pc[e] \in {"PUBLISHED", "FAILED"}
    /\ pc' = [pc EXCEPT ![e] = "IDLE"]
    /\ registry' = registry \cup {e}
    /\ IF pc[e] = "FAILED"
       THEN /\ setupResult' = [setupResult EXCEPT ![e] = "False"]
            /\ entryState' = [entryState EXCEPT ![e] = "SETUP_ERROR"]
       ELSE UNCHANGED <<setupResult, entryState>>

\* hass_indoor_sun async_setup_entry when the first refresh has resolved: a
\* failed one (async_config_entry_first_refresh raises) is caught and
\* answered False; otherwise the coordinator is stored in hass.data[DOMAIN]
\* and the call awaits async_forward_entry_setups.
HassSetupContinue(e) ==
    /\ pc[e] \in {"PUBLISHED", "FAILED"}
    /\ pc' = [pc EXCEPT ![e] = "IDLE"]
    /\ IF pc[e] = "FAILED"
       THEN /\ setupResult' = [setupResult EXCEPT ![e] = "False"]
            /\ entryState' = [entryState EXCEPT ![e] = "SETUP_ERROR"]
            /\ UNCHANGED registry
       ELSE /\ registry' = registry \cup {e}
            /\ UNCHANGED <<setupResult, entryState>>

\* indoor_sun async_setup_entry when the first refresh has resolved: nothing
\* catches what async_config_entry_first_refresh raises.
OldSetupContinue(e) ==
    /\ pc[e] \in {"PUBLISHED", "FAILED"}
    /\ pc' = [pc EXCEPT ![e] = "IDLE"]
    /\ IF pc[e] = "FAILED"
       THEN /\ setupResult' = [setupResult EXCEPT ![e] = "ConfigEntryNotReady"]
            /\ entryState' = [entryState EXCEPT ![e] = "SETUP_RETRY"]
            /\ UNCHANGED registry
       ELSE /\ registry' = registry \cup {e}
            /\ UNCHANGED <<setupResult, entryState>>

SetupContinue(e) ==
    /\ entryState[e] = "SETUP_IN_PROGRESS"
    /\ IF Domain(e) = "hass_indoor_sun" THEN HassSetupContinue(e)
       ELSE OldSetupContinue(e)
    /\ UNCHANGED <<asideVars, configured, forwarded, unloading, timerArmed, cacheVars,
                   image_url, image_data, job, orphans, fetchCalls, updateCalls,
                   inFlight, cycle>>

\* platforms = ["sensor"], with "image" appended when the configuration
\* merged at the start of the set-up (the one the coordinator was
\* constructed from) enables the image entity.
HassPlatforms(c) == IF c.enable_image_entity THEN {"sensor", "image"} ELSE {"sensor"}

OldPlatforms == {"sensor"}

\* The awaited async_forward_entry_setups has set the platforms up (their
\* entities listen to the coordinator, which arms its timer) and
\* async_setup_entry returns True.
SetupForward(e) ==
    /\ entryState[e] = "SETUP_IN_PROGRESS"
    /\ e \in registry
    /\ pc[e] = "IDLE"
    /\ forwarded' = [forwarded EXCEPT ![e] =
                        IF Domain(e) = "hass_indoor_sun"
                        THEN HassPlatforms(Coordinator(e)) ELSE OldPlatforms]
    /\ timerArmed' = [timerArmed EXCEPT ![e] = TimerAfter("resolved", TRUE)]
    /\ setupResult' = [setupResult EXCEPT ![e] = "True"]
    /\ entryState' = [entryState EXCEPT ![e] = "LOADED"]
    /\ UNCHANGED <<asideVars, configured, registry, unloading, cacheVars, pc, image_url,
                   image_data, job, orphans, fetchCalls, updateCalls, inFlight, cycle>>

Next ==
    \E e \in Entries :
        \/ SetupEntry(e)
        \/ Tick(e)
        \/ \E status \in Statuses : ResponseStatus(e, status)
        \/ FetchError(e)
        \/ \E body \in Bodies : ReadBody(e, body)
        \/ JobRun(e)
        \/ JobEncode(e)
        \/ Publish(e)
        \/ JobRaised(e)
        \/ Timeout(e)
        \/ OrphanDone(e)
        \/ Rearm(e)
        \/ SetupContinue(e)
        \/ SetupForward(e)

Spec == Init /\ [][Next]_vars

\* What the host's scheduling guarantees: configured entries are set up (and
\* set up again after ConfigEntryNotReady), an armed timer fires, the
\* 10-second timeout expires unless the cycle resolves first, and a resumed
\* coroutine runs on.
FairSpec ==
    /\ Spec
    /\ \A e \in Entries :
           /\ WF_vars(SetupEntry(e))
           /\ WF_vars(Tick(e))
           /\ WF_vars(Timeout(e))
           /\ WF_vars(Rearm(e))
           /\ WF_vars(SetupContinue(e))
           /\ WF_vars(SetupForward(e))

\* --------------------------------------------------- several instances

\* Refreshes (first refresh included) each entry may start when several are
\* configured.
PairCycles == 2

\* The platforms async_unload_entry unloads: those the entry's merged
\* configuration names now.
UnloadPlatforms(e) ==
    IF Domain(e) = "hass_indoor_sun"
            /\ Get(Merge(EntryData(e), EntryOptions(e)), "enable_image_entity", FALSE)
    THEN {"sensor", "image"} ELSE {"sensor"}

\* async_unload_entry up to its await: the platforms are named and
\* async_unload_platforms is called.
UnloadEntry(e) ==
    /\ entryState[e] = "LOADED"
    /\ entryState' = [entryState EXCEPT ![e] = "UNLOAD_IN_PROGRESS"]
    /\ unloading' = [unloading EXCEPT ![e] = UnloadPlatforms(e)]
    /\ UNCHANGED <<asideVars, configured, setupResult, registry, forwarded, cacheVars,
                   pc, image_url, image_data, job, orphans, timerArmed, fetchCalls,
                   updateCalls, inFlight, cycle>>

\* Fault variant: a successful unload empties hass.data[DOMAIN].
UnloadContinueClearing(e, unload_ok) ==
    /\ entryState[e] = "UNLOAD_IN_PROGRESS"
    /\ unloading' = [unloading EXCEPT ![e] = {}]
    /\ IF unload_ok
       THEN /\ registry' = {}
            /\ forwarded' = [forwarded EXCEPT ![e] = @ \ unloading[e]]
            /\ entryState' = [entryState EXCEPT ![e] = "NOT_LOADED"]
            /\ timerArmed' = [timerArmed EXCEPT ![e] = @ /\ forwarded'[e] # {}]
       ELSE /\ entryState' = [entryState EXCEPT ![e] = "FAILED_UNLOAD"]
            /\ UNCHANGED <<registry, forwarded, timerArmed>>
    /\ UNCHANGED <<asideVars, configured, setupResult, cacheVars, pc, image_url,
                   image_data, job, orphans, fetchCalls, updateCalls, inFlight, cycle>>

\* async_unload_platforms has answered: the named platforms are unloaded
\* (their entities removed; the coordinator cancels its timer when none
\* listens any more) and, when that succeeded, the coordinator is popped from
\* hass.data[DOMAIN].
UnloadContinue(e, unload_ok) ==
    /\ entryState[e] = "UNLOAD_IN_PROGRESS"
    /\ unloading' = [unloading EXCEPT ![e] = {}]
    /\ IF unload_ok
       THEN /\ registry' = registry \ {e}
            /\ forwarded' = [forwarded EXCEPT ![e] = @ \ unloading[e]]
            /\ entryState' = [entryState EXCEPT ![e] = "NOT_LOADED"]
            /\ timerArmed' = [timerArmed EXCEPT ![e] = @ /\ forwarded'[e] # {}]
       ELSE /\ entryState' = [entryState EXCEPT ![e] = "FAILED_UNLOAD"]
            /\ UNCHANGED <<registry, forwarded, timerArmed>>
    /\ UNCHANGED <<asideVars, configured, setupResult, cacheVars, pc, image_url,
                   image_data, job, orphans, fetchCalls, updateCalls, inFlight, cycle>>

PairSetupEntry(e) == updateCalls[e] < PairCycles /\ SetupEntry(e)

PairTick(e) == updateCalls[e] < PairCycles /\ Tick(e)

\* Two entries are configured, of the same integration or of both.
PairInit ==
    /\ configured \in {{"h1", "h2"}, {"h2", "o1"}}
    /\ CycleIdle
    /\ bench = NoBench
    /\ FlowIdle

PairNext ==
    \E e \in Entries :
        \/ PairSetupEntry(e)
        \/ PairTick(e)
        \/ \E status \in {200, 404} : ResponseStatus(e, status)
        \/ FetchError(e)
        \/ \E body \in {BodyA, EmptyBody} : ReadBody(e, body)
        \/ JobRun(e)
        \/ JobEncode(e)
        \/ Publish(e)
        \/ JobRaised(e)
        \/ Timeout(e)
        \/ OrphanDone(e)
        \/ Rearm(e)
        \/ SetupContinue(e)
        \/ SetupForward(e)
        \/ UnloadEntry(e)
        \/ \E unload_ok \in BOOLEAN : UnloadContinue(e, unload_ok)

PairSpec == PairInit /\ [][PairNext]_vars

\* ------------------------------------------------------ the analyzer bench

\* One coordinator, constructed from one configuration, requests one frame
\* and analyzes it: the inputs range over the sets below.

\* A w x h RGB image whose pixels all are `pixel`.
SolidImage(w, h, pixel) ==
    [parseable |-> TRUE, mode |-> "RGB", w |-> w, h |-> h,
     px |-> [i \in 1..(w * h) |-> pixel]]

\* 2 x 2, RGB, four different pixels
BodyC == [parseable |-> TRUE, mode |-> "RGB", w |-> 2, h |-> 2,
          px |-> << <<0, 0, 0>>, <<255, 255, 255>>,
                    <<100, 150, 201>>, <<51, 51, 51>> >>]

\* 3 x 1, RGB: the mean of the red band, 140 / 3, is no float exactly
BodyD == [parseable |-> TRUE, mode |-> "RGB", w |-> 3, h |-> 1,
          px |-> << <<47, 75, 61>>, <<47, 75, 61>>, <<46, 75, 61>> >>]

\* Greys of 0 %, 20 %, 80 % and 100 % brightness, and three colours; the
\* brightness of the last, rescaled from 20..100, lies within a rounding
\* error of 11.165 %.
BenchColours ==
    {<<0, 0, 0>>, <<51, 51, 51>>, <<204, 204, 204>>, <<255, 255, 255>>,
     <<200, 100, 50>>, <<10, 20, 31>>, <<74, 75, 61>>}

\* The colours of the frames that are cropped.
CropColours == {<<255, 255, 255>>, <<200, 100, 50>>, <<10, 20, 31>>}

SolidBodies ==
    {SolidImage(w, h, p) : w \in 1..MaxSide, h \in 1..MaxSide, p \in BenchColours}

MixedBodies == {EmptyBody, BodyB, BodyC, BodyD}

\* The frames analyzed under every adjustment: the smallest and the largest
\* frame of every colour, and the frames of several colours.
AdjustedBodies ==
    {SolidImage(side, side, p) : side \in {1, MaxSide}, p \in BenchColours}
        \cup MixedBodies

\* The frames analyzed under every crop: every size of three colours, and the
\* frames of several colours.
CroppedBodies ==
    {body \in SolidBodies : body.px[1] \in CropColours} \cup MixedBodies

\* Every rectangle with corners on the grid.
GridBoxes ==
    {<<x0, y0, x1, y1>> : x0 \in 0..MaxSide, y0 \in 0..MaxSide,
                          x1 \in 0..MaxSide, y1 \in 0..MaxSide}

\* No crop, every ordered rectangle of the grid, and one of no pixels.
BenchCrops ==
    {<<>>, <<1, 1, 1, 1>>} \cup {box \in GridBoxes : box[1] < box[3] /\ box[2] < box[4]}

\* <<enable_brightness_adjustment ("absent": no such key), min, max>>
BenchBrightness ==
    {<<>>, <<"on", 0, 100>>, <<"on", 20, 80>>, <<"on", 20, 100>>, <<"on", 50, 50>>,
     <<"on", 80, 20>>, <<"absent", 20, 80>>}

\* <<enable_color_adjustment, min r, g, b, max r, g, b>>
BenchColour ==
    {<<>>, <<"on", 0, 0, 0, 255, 255, 255>>, <<"on", 50, 50, 50, 200, 200, 200>>,
     <<"on", 0, 100, 200, 100, 100, 50>>, <<"absent", 50, 50, 50, 200, 200, 200>>}

BenchSources == {"frigate", "snapshot", "absent"}

BenchUrls == {FrigateBaseUrl, CamSnapshotUrl}

BenchCameras == {"porch", "snapshot"}

CropPart(crop) ==
    IF crop = <<>> THEN <<>>
    ELSE [top_left_x |-> crop[1], top_left_y |-> crop[2],
          bottom_right_x |-> crop[3], bottom_right_y |-> crop[4]]

BrightnessPart(b) ==
    IF b = <<>> THEN <<>>
    ELSE Merge(IF b[1] = "absent" THEN <<>>
               ELSE [enable_brightness_adjustment |-> b[1] = "on"],
               [min_brightness |-> b[2], max_brightness |-> b[3]])

ColourPart(k) ==
    IF k = <<>> THEN <<>>
    ELSE Merge(IF k[1] = "absent" THEN <<>>
               ELSE [enable_color_adjustment |-> k[1] = "on"],
               [min_color_r |-> k[2], min_color_g |-> k[3], min_color_b |-> k[4],
                max_color_r |-> k[5], max_color_g |-> k[6], max_color_b |-> k[7]])

\* The merged configuration {**entry.data, **entry.options} of a bench case.
BenchData(source, base_url, camera, crop, b, k, image) ==
    Merge(Merge(Merge(
        Merge(IF source = "absent" THEN <<>> ELSE [source_type |-> source],
              [base_url |-> base_url, camera |-> camera,
               enable_image_entity |-> image]),
        CropPart(crop)), BrightnessPart(b)), ColourPart(k))

BenchCase(d, body) == [NoBench EXCEPT !.stage = "new", !.data = d, !.body = body]

\* The cases: every source, URL and camera, with and without the image
\* entity and a crop; with a frigate source, every adjustment of the
\* uncropped frames, and every crop without adjustment and with both.
BenchInit ==
    /\ \/ \E source \in BenchSources, base_url \in BenchUrls,
             camera \in BenchCameras, image \in BOOLEAN,
             crop \in {<<>>, <<0, 0, 1, 1>>} :
             bench = BenchCase(BenchData(source, base_url, camera, crop, <<>>, <<>>,
                                         image), BodyA)
       \/ \E body \in AdjustedBodies, b \in BenchBrightness, k \in BenchColour :
             bench = BenchCase(BenchData("frigate", FrigateBaseUrl, "porch",
                                         <<>>, b, k, FALSE), body)
       \/ \E body \in CroppedBodies, crop \in BenchCrops,
             bk \in {<<<<>>, <<>>>>,
                     <<<<"on", 20, 80>>, <<"on", 50, 50, 50, 200, 200, 200>>>>} :
             bench = BenchCase(BenchData("frigate", FrigateBaseUrl, "porch",
                                         crop, bk[1], bk[2], FALSE), body)
    /\ configured = {}
    /\ CycleIdle
    /\ FlowIdle

\* The coordinator of the bench case.
BenchCoordinator == HassCoordinatorInit(bench.data, <<>>)

\* _fetch_and_process_frame up to session.get: the URL is built and kept.
BenchFetch ==
    /\ bench.stage = "new"
    /\ bench' = [bench EXCEPT !.stage = "fetched",
                              !.url = HassRequestUrl(BenchCoordinator)]
    /\ UNCHANGED <<cycleVars, flow, optionsFlow, entry_data, entry_options,
                   coordinator>>

\* _process_image of hass_indoor_sun on the frame.
BenchAnalyze ==
    /\ bench.stage = "fetched"
    /\ bench' = [bench EXCEPT !.stage = "analyzed",
                              !.out = HassProcessImage(BenchCoordinator, bench.body)]
    /\ UNCHANGED <<cycleVars, flow, optionsFlow, entry_data, entry_options,
                   coordinator>>

\* _process_image of indoor_sun on the same frame.
BenchOldAnalyze ==
    /\ bench.stage = "analyzed"
    /\ bench' = [bench EXCEPT !.stage = "compared",
                              !.old = OldProcessImage(bench.body)]
    /\ UNCHANGED <<cycleVars, flow, optionsFlow, entry_data, entry_options,
                   coordinator>>

BenchNext == BenchFetch \/ BenchAnalyze \/ BenchOldAnalyze

AnalyzerSpec == BenchInit /\ [][BenchNext]_vars

\* ----------------------------------------------------------- the config flow

\* The code points str.isspace() holds for, which str.strip() removes: tab
\* to carriage return, the separators U+001C to U+001F, space, next line
\* U+0085, no-break space U+00A0, ogham space mark U+1680, en quad to hair
\* space U+2000 to U+200A, line and paragraph separator U+2028 and U+2029,
\* narrow no-break space U+202F, medium mathematical space U+205F and
\* ideographic space U+3000.
Whitespace ==
    (9..13) \cup (28..32) \cup {133, 160, 5760} \cup (8192..8202)
        \cup {8232, 8233, 8239, 8287, 12288}

\* str.strip(): leading and trailing whitespace removed.
RECURSIVE Strip(_)
Strip(s) ==
    IF Len(s) = 0 THEN s
    ELSE IF s[1] \in Whitespace THEN Strip(SubSeq(s, 2, Len(s)))
    ELSE IF s[Len(s)] \in Whitespace THEN Strip(SubSeq(s, 1, Len(s) - 1))
    ELSE s

\* str.startswith(prefix)
StartsWith(s, prefix) ==
    Len(s) >= Len(prefix) /\ SubSeq(s, 1, Len(prefix)) = prefix

\* The errors dict of a step: empty, or one key.
NoErrors == <<>>

BaseError(code) == [base |-> code]

\* Bytes that are not empty and are no image.
GarbageBody == [EmptyBody EXCEPT !.mode = "?"]

\* bool(self.test_image_data): None and b"" are false.
Truthy(bytes) == ~IsNone(bytes) /\ bytes # EmptyBody

\* async_show_form(step_id, errors): the flow waits at the step.
ShowForm(f, step_id, errors) == [f EXCEPT !.step = step_id, !.errors = errors]

\* Fault variant: the source step is skipped.
UserStepToSettings(f, user_input) ==
    ShowForm([f EXCEPT !.config_data = Merge(@, user_input)], "settings", NoErrors)

\* async_step_user with user_input: the source is kept and the form of the
\* matching source step is shown.
UserStep(f, user_input) ==
    LET g == [f EXCEPT !.config_data = Merge(@, user_input)]
    IN  IF user_input["source_type"] = "frigate"
        THEN ShowForm(g, "frigate", NoErrors)
        ELSE ShowForm(g, "snapshot", NoErrors)

\* The schema async_step_frigate showed, applied to a submission: a key left
\* out takes its default, which for protocol, host and camera_name is what
\* config_data held when the form was built ("http", "" and "" without
\* it), and for port 443 or 5000 by the protocol config_data held then.
FrigateSchema(config_data, raw) ==
    Merge([protocol |-> Get(config_data, "protocol", "http"),
           host |-> Get(config_data, "host", ""),
           camera_name |-> Get(config_data, "camera_name", ""),
           port |-> IF Get(config_data, "protocol", "http") = "https"
                    THEN 443 ELSE 5000],
          raw)

\* async_step_frigate with user_input.
FrigateStep(f, user_input) ==
    LET ui == IF ~Has(user_input, "port")
              THEN Merge(user_input,
                         [port |-> IF user_input["protocol"] = "https"
                                   THEN 443 ELSE 5000])
              ELSE user_input
        base_url == Text(ui["protocol"]) \o Text("://") \o Text(ui["host"])
                        \o Text(":") \o Text(ToString(ui["port"]))
        g == [f EXCEPT
                !.config_data = Merge(Merge(@, ui),
                                      [base_url |-> base_url,
                                       camera |-> ui["camera_name"]]),
                !.test_image_url =
                    base_url \o Text("/api/") \o Text(ui["camera_name"])
                        \o Text("/latest.jpg")]
    IN  ShowForm(g, "test_connection", NoErrors)

\* Fault variant: the snapshot URL is taken whatever its scheme.
SnapshotStepUnchecked(f, user_input) ==
    LET snapshot_url == Strip(user_input["snapshot_url"])
    IN  ShowForm([f EXCEPT
                    !.config_data = Merge(Merge(@, user_input),
                                          [base_url |-> snapshot_url,
                                           camera |-> "snapshot"]),
                    !.test_image_url = snapshot_url],
                 "test_connection", NoErrors)

\* async_step_snapshot with user_input.
SnapshotStep(f, user_input) ==
    LET snapshot_url == Strip(user_input["snapshot_url"])
    IN  IF ~(\/ StartsWith(snapshot_url, Text("http://"))
             \/ StartsWith(snapshot_url, Text("https://")))
        THEN ShowForm(f, "snapshot", [snapshot_url |-> "url_invalid_protocol"])
        ELSE ShowForm([f EXCEPT
                         !.config_data = Merge(Merge(@, user_input),
                                               [base_url |-> snapshot_url,
                                                camera |-> "snapshot"]),
                         !.test_image_url = snapshot_url],
                      "test_connection", NoErrors)

\* What the wizard's test request met: a status and a body, or an exception.
TestResponse(status, body) == [raised |-> FALSE, status |-> status, body |-> body]

TestRaised == [raised |-> TRUE, status |-> 0, body |-> EmptyBody]

\* async_step_test_connection with user_input, whose key is `button`
\* ("" for an empty user_input).
TestConnectionStep(f, button, response) ==
    IF button = "test_connection"
    THEN IF response.raised
         THEN ShowForm(f, "test_connection", BaseError("connection_error"))
         ELSE IF response.status = 200
         THEN IF Truthy(response.body) /\ ~response.body.parseable
              THEN ShowForm([f EXCEPT !.test_image_data = NoData],
                            "test_connection", BaseError("invalid_image_format"))
              ELSE ShowForm([f EXCEPT !.test_image_data = response.body],
                            "test_connection", NoErrors)
         ELSE ShowForm(f, "test_connection", BaseError("connection_failed"))
    ELSE IF button = "proceed_anyway"
    THEN ShowForm(f, "test_connection", NoErrors)
    ELSE IF button = "proceed" /\ Truthy(f.test_image_data)
    THEN ShowForm(f, "settings", NoErrors)
    ELSE IF button = "retest"
    THEN ShowForm([f EXCEPT !.test_image_data = NoData], "test_connection", NoErrors)
    ELSE ShowForm(f, "settings", NoErrors)

\* STEP_SETTINGS_SCHEMA: the defaults of the keys not given.
SettingsSchema(raw) ==
    Merge([scan_interval |-> 60, enable_image_entity |-> FALSE], raw)

\* async_step_settings with user_input.
SettingsStep(f, user_input) ==
    ShowForm([f EXCEPT !.config_data = Merge(@, user_input)],
             "image_processing", NoErrors)

\* STEP_IMAGE_PROCESSING_SCHEMA: the defaults of the keys not given (the crop
\* coordinates have none).
ImageProcessingSchema(raw) ==
    Merge([enable_cropping |-> FALSE,
           enable_brightness_adjustment |-> FALSE,
           min_brightness |-> 0, max_brightness |-> 100,
           enable_color_adjustment |-> FALSE,
           min_color_r |-> 0, min_color_g |-> 0, min_color_b |-> 0,
           max_color_r |-> 255, max_color_g |-> 255, max_color_b |-> 255], raw)

\* Fault variant: the ranges are stored as given, in whatever order.
ImageProcessingErrorsUnordered(user_input) ==
    IF Get(user_input, "enable_cropping", FALSE)
       /\ ~(\A k \in CropKeys : Has(user_input, k))
    THEN BaseError("crop_coordinates_incomplete")
    ELSE NoErrors

\* The validation of async_step_image_processing: each failing check
\* overwrites errors["base"].
ImageProcessingErrors(user_input) ==
    LET crop == IF ~Get(user_input, "enable_cropping", FALSE) THEN ""
                ELSE IF ~(\A k \in CropKeys : Has(user_input, k))
                THEN "crop_coordinates_incomplete"
                ELSE IF \/ user_input["top_left_x"] >= user_input["bottom_right_x"]
                        \/ user_input["top_left_y"] >= user_input["bottom_right_y"]
                THEN "crop_coordinates_invalid"
                ELSE ""
        brightness ==
            IF /\ Get(user_input, "enable_brightness_adjustment", FALSE)
               /\ user_input["min_brightness"] >= user_input["max_brightness"]
            THEN "brightness_range_invalid" ELSE ""
        colour ==
            IF /\ Get(user_input, "enable_color_adjustment", FALSE)
               /\ \/ user_input["min_color_r"] >= user_input["max_color_r"]
                  \/ user_input["min_color_g"] >= user_input["max_color_g"]
                  \/ user_input["min_color_b"] >= user_input["max_color_b"]
            THEN "color_range_invalid" ELSE ""
    IN  IF colour # "" THEN BaseError(colour)
        ELSE IF brightness # "" THEN BaseError(brightness)
        ELSE IF crop # "" THEN BaseError(crop)
        ELSE NoErrors

\* The keys of d that are in keys.
Restrict(d, keys) == [k \in (DOMAIN d) \cap keys |-> d[k]]

BrightnessKeys == {"min_brightness", "max_brightness"}

ColourKeys == {"min_color_r", "min_color_g", "min_color_b",
               "max_color_r", "max_color_g", "max_color_b"}

\* _prepare_final_config: the entry's data, from the accumulated config_data.
PrepareFinalConfig(config_data) ==
    Merge(
        [source_type |-> config_data["source_type"],
         base_url |-> config_data["base_url"],
         camera |-> config_data["camera"],
         scan_interval |-> Get(config_data, "scan_interval", 60),
         enable_image_entity |-> Get(config_data, "enable_image_entity", FALSE)],
        Merge(IF Get(config_data, "enable_cropping", FALSE)
              THEN Restrict(config_data, CropKeys) ELSE <<>>,
        Merge(IF Get(config_data, "enable_brightness_adjustment", FALSE)
              THEN Restrict(config_data, BrightnessKeys) ELSE <<>>,
        Merge(IF Get(config_data, "enable_color_adjustment", FALSE)
              THEN Restrict(config_data, ColourKeys) ELSE <<>>,
              IF config_data["source_type"] = "frigate"
              THEN Restrict(config_data, {"protocol", "host", "port", "camera_name"})
              ELSE Restrict(config_data, {"snapshot_url"})))))

\* Fault variant: the submission is merged into config_data before it is
\* validated.
ImageProcessingStepStoring(f, user_input) ==
    LET errors == ImageProcessingErrors(user_input)
        g == [f EXCEPT !.config_data = Merge(@, user_input)]
    IN  IF errors # NoErrors
        THEN ShowForm(g, "image_processing", errors)
        ELSE ShowForm(g, "create_entry", NoErrors)

\* async_step_image_processing with user_input: the form again with the
\* error, or the accumulated data completed and the entry created.
ImageProcessingStep(f, user_input) ==
    LET errors == ImageProcessingErrors(user_input)
    IN  IF errors # NoErrors
        THEN ShowForm(f, "image_processing", errors)
        ELSE ShowForm([f EXCEPT !.config_data = Merge(@, user_input)],
                      "create_entry", NoErrors)

\* ----- the options flow

\* cur = {**config_entry.data, **config_entry.options}, and the keys of the
\* schema async_step_init builds from it.
OptionsSchemaKeys(cur) ==
    {"scan_interval", "enable_image_entity"} \cup CropKeys
        \cup (IF BrightnessKeys \cap DOMAIN cur # {} THEN BrightnessKeys ELSE {})
        \cup (IF {"min_color_r", "max_color_r"} \cap DOMAIN cur # {}
              THEN ColourKeys ELSE {})

\* The default the schema gives key k: the current value, or the key's
\* fallback; a crop coordinate that is not configured has the default None.
OptionsDefault(cur, k) ==
    CASE k = "scan_interval" -> Get(cur, k, 60)
      [] k = "enable_image_entity" -> Get(cur, k, FALSE)
      [] k = "min_brightness" -> Get(cur, k, 0)
      [] k = "max_brightness" -> Get(cur, k, 100)
      [] k \in {"min_color_r", "min_color_g", "min_color_b"} -> Get(cur, k, 0)
      [] k \in {"max_color_r", "max_color_g", "max_color_b"} -> Get(cur, k, 255)
      [] OTHER -> cur[k]

\* user_input as the schema hands it to async_step_init: `vals` are the keys
\* with a value, `nones` the keys whose value is None.  A crop coordinate is
\* None when it is submitted as None (vol.Any(int, None)), or left out with
\* the default cur.get(k) being None.
OptionsSchema(cur, raw) ==
    LET keys == OptionsSchemaKeys(cur)
        nones == {k \in CropKeys :
                     IF Has(raw, k) THEN IsNoneValue(raw[k])
                     ELSE ~Has(cur, k) \/ IsNoneValue(cur[k])}
    IN  [vals |-> [k \in keys \ nones |->
                     IF Has(raw, k) THEN raw[k] ELSE OptionsDefault(cur, k)],
         nones |-> nones]

\* key in user_input
InInput(user_input, k) == Has(user_input.vals, k) \/ k \in user_input.nones

\* The validation of IndoorSunOptionsFlow.async_step_init.
OptionsErrors(user_input) ==
    LET v == user_input.vals
        brightness ==
            IF /\ InInput(user_input, "min_brightness")
               /\ InInput(user_input, "max_brightness")
               /\ v["min_brightness"] >= v["max_brightness"]
            THEN "brightness_range_invalid" ELSE ""
        colour ==
            IF \E ch \in {"r", "g", "b"} :
                   /\ InInput(user_input, "min_color_" \o ch)
                   /\ InInput(user_input, "max_color_" \o ch)
                   /\ v["min_color_" \o ch] >= v["max_color_" \o ch]
            THEN "color_range_invalid" ELSE ""
        crop ==
            IF ~(\E k \in CropKeys : InInput(user_input, k)) THEN ""
            ELSE IF ~(\A k \in CropKeys : Has(v, k))
            THEN "crop_coordinates_incomplete"
            ELSE IF \/ v["top_left_x"] >= v["bottom_right_x"]
                    \/ v["top_left_y"] >= v["bottom_right_y"]
            THEN "crop_coordinates_invalid"
            ELSE ""
    IN  IF crop # "" THEN BaseError(crop)
        ELSE IF colour # "" THEN BaseError(colour)
        ELSE IF brightness # "" THEN BaseError(brightness)
        ELSE NoErrors

\* async_create_entry(title="", data=user_input): the dict stored as
\* entry.options.
OptionsData(user_input) ==
    Merge(user_input.vals, [k \in user_input.nones |-> None])

\* ----- what is submitted to the flows

\* <<protocol, port>>: "" for a protocol left out, 0 for a port left out
FrigateChoices == {<<"https", 0>>, <<"http", 8443>>, <<"", 0>>}

FrigateRaw(choice) ==
    Merge(Merge([host |-> "frigate", camera_name |-> "porch"],
                IF choice[1] = "" THEN <<>> ELSE [protocol |-> choice[1]]),
          IF choice[2] = 0 THEN <<>> ELSE [port |-> choice[2]])

\* A URL between whitespace (U+1680 and a tab before it, a line feed and
\* U+3000 after it), a URL of another scheme, one of no scheme, and a URL
\* after U+200B, which is no whitespace to str.strip().
SnapshotUrls ==
    {<<5760, 9>> \o CamSnapshotUrl \o <<10, 12288>>,
     Text(" ftp://cam/snap.jpg"),
     Text("cam/snap.jpg"),
     <<8203>> \o CamSnapshotUrl}

TestButtons == {"test_connection", "proceed_anyway", "proceed", "retest", ""}

TestStatuses == {200, 404}

TestBodies == {BodyA, GarbageBody}

\* <<scan_interval, enable_image_entity>>, scan_interval 0 for both left out
SettingsChoices == {<<0, FALSE>>, <<30, TRUE>>}

SettingsRaw(choice) ==
    IF choice[1] = 0 THEN <<>>
    ELSE [scan_interval |-> choice[1], enable_image_entity |-> choice[2]]

\* <<enable_cropping, rectangle>>
WizardCrops ==
    {<<FALSE, <<>> >>, <<TRUE, <<>> >>, <<TRUE, <<0, 0, 1, 1>> >>,
     <<TRUE, <<1, 0, 1, 1>> >>, <<FALSE, <<1, 0, 1, 1>> >>}

\* <<enable_brightness_adjustment, min, max>>
WizardBrightness ==
    {<<FALSE, 0, 100>>, <<TRUE, 20, 80>>, <<TRUE, 80, 20>>}

\* <<enable_color_adjustment, min r, g, b, max r, g, b>>
WizardColour ==
    {<<FALSE, 0, 0, 0, 255, 255, 255>>, <<TRUE, 50, 50, 50, 200, 200, 200>>,
     <<TRUE, 0, 100, 0, 255, 100, 255>>}

ImageProcessingRaw(crop, b, k) ==
    Merge(Merge(Merge([enable_cropping |-> crop[1]], CropPart(crop[2])),
                [enable_brightness_adjustment |-> b[1],
                 min_brightness |-> b[2], max_brightness |-> b[3]]),
          [enable_color_adjustment |-> k[1],
           min_color_r |-> k[2], min_color_g |-> k[3], min_color_b |-> k[4],
           max_color_r |-> k[5], max_color_g |-> k[6], max_color_b |-> k[7]])

\* The options submissions <<settings, crop, brightness, colour>>: settings
\* are <<scan_interval, enable_image_entity>> (scan_interval 0 for both left
\* out), crop a rectangle, brightness <<min, max>>, colour <<min r, g, b,
\* max r, g, b>>, each <<>> when left out.  One submission carries a crop
\* coordinate as None.
OptionsSubmissions ==
    {<<<<0, FALSE>>, <<0, 0, 2, 1>>, <<>>, <<>> >>,
     <<<<5, FALSE>>, <<0, None, 2, 1>>, <<>>, <<>> >>,
     <<<<10, TRUE>>, <<0, 0, 2, 1>>, <<>>, <<>> >>,
     <<<<10, TRUE>>, <<>>, <<>>, <<>> >>,
     <<<<0, FALSE>>, <<2, 0, 1, 1>>, <<>>, <<>> >>,
     <<<<10, TRUE>>, <<0, 0, 2, 1>>, <<10, 90>>, <<>> >>,
     <<<<0, FALSE>>, <<0, 0, 2, 1>>, <<90, 10>>, <<>> >>,
     <<<<0, FALSE>>, <<0, 0, 2, 1>>, <<>>, <<0, 0, 100, 100, 100, 100>> >>}

OptionsRaw(settings, crop, b, k) ==
    Merge(Merge(Merge(SettingsRaw(settings), CropPart(crop)),
                IF b = <<>> THEN <<>>
                ELSE [min_brightness |-> b[1], max_brightness |-> b[2]]),
          IF k = <<>> THEN <<>>
          ELSE [min_color_r |-> k[1], min_color_g |-> k[2], min_color_b |-> k[3],
                max_color_r |-> k[4], max_color_g |-> k[5], max_color_b |-> k[6]])

\* What the first refresh of the created entry meets.
FlowStatuses == {200, 404}

FlowBodies == {BodyA}

\* ----- the flows' actions

WizardUser(source_type) ==
    /\ flow.step = "user"
    /\ flow' = UserStep(flow, [source_type |-> source_type])
    /\ UNCHANGED <<cycleVars, bench, optionsFlow, entry_data, entry_options,
                   coordinator>>

WizardFrigate(choice) ==
    /\ flow.step = "frigate"
    /\ flow' = FrigateStep(flow, FrigateSchema(flow.config_data, FrigateRaw(choice)))
    /\ UNCHANGED <<cycleVars, bench, optionsFlow, entry_data, entry_options,
                   coordinator>>

WizardSnapshot(url) ==
    /\ flow.step = "snapshot"
    /\ flow' = SnapshotStep(flow, [snapshot_url |-> url])
    /\ UNCHANGED <<cycleVars, bench, optionsFlow, entry_data, entry_options,
                   coordinator>>

\* A submission of the test_connection form.  With the key test_connection
\* the handler runs up to its first await, session.get, whatever earlier
\* requests of the flow still wait (MaxTestRequests bounds how many the model
\* lets wait at once); any other submission is handled at once.  A flow that
\* has created its entry is finished: the form a late answer shows again
\* (TestStatus, TestRead, TestFailed) takes no submission.
WizardTestConnection(button) ==
    /\ flow.step = "test_connection"
    /\ WizardEntry \notin configured
    /\ IF button = "test_connection"
       THEN /\ flow.test_requests.get + flow.test_requests.read < MaxTestRequests
            /\ flow' = [flow EXCEPT !.test_requests.get = @ + 1]
       ELSE flow' = TestConnectionStep(flow, button, TestRaised)
    /\ UNCHANGED <<cycleVars, bench, optionsFlow, entry_data, entry_options,
                   coordinator>>

\* session.get of one waiting request answers with the status line: with 200
\* the handler awaits response.read, with any other status it shows the form
\* with its error.
TestStatus(status) ==
    /\ flow.test_requests.get > 0
    /\ flow' = IF status = 200
               THEN [flow EXCEPT !.test_requests.get = @ - 1,
                                 !.test_requests.read = @ + 1]
               ELSE [TestConnectionStep(flow, "test_connection",
                                        TestResponse(status, EmptyBody))
                        EXCEPT !.test_requests.get = @ - 1]
    /\ UNCHANGED <<cycleVars, bench, optionsFlow, entry_data, entry_options,
                   coordinator>>

\* response.read of one waiting request returns the body: it is kept, opened,
\* and the form shown.
TestRead(body) ==
    /\ flow.test_requests.read > 0
    /\ flow' = [TestConnectionStep(flow, "test_connection", TestResponse(200, body))
                  EXCEPT !.test_requests.read = @ - 1]
    /\ UNCHANGED <<cycleVars, bench, optionsFlow, entry_data, entry_options,
                   coordinator>>

\* The request (stage "get") or the read (stage "read") of one waiting
\* request raises, or its 10-second timeout expires.
TestFailed(stage) ==
    /\ flow.test_requests[stage] > 0
    /\ flow' = [TestConnectionStep(flow, "test_connection", TestRaised)
                  EXCEPT !.test_requests[stage] = @ - 1]
    /\ UNCHANGED <<cycleVars, bench, optionsFlow, entry_data, entry_options,
                   coordinator>>

WizardSettings(choice) ==
    /\ flow.step = "settings"
    /\ flow' = SettingsStep(flow, SettingsSchema(SettingsRaw(choice)))
    /\ UNCHANGED <<cycleVars, bench, optionsFlow, entry_data, entry_options,
                   coordinator>>

\* A submission of the last step: on success async_create_entry stores the
\* final configuration as the data of a new entry, which Home Assistant then
\* sets up.  Nothing cancels a test request the flow still awaits: its
\* handler resumes later, on the flow that has created its entry.
WizardImageProcessing(crop, b, k) ==
    LET f == ImageProcessingStep(flow, ImageProcessingSchema(ImageProcessingRaw(crop, b, k)))
        created == f.step = "create_entry"
    IN  /\ flow.step = "image_processing"
        /\ flow' = f
        /\ entry_data' = IF created THEN PrepareFinalConfig(f.config_data)
                         ELSE entry_data
        /\ configured' = IF created THEN configured \cup {WizardEntry} ELSE configured
        /\ UNCHANGED <<entryState, setupResult, registry, forwarded, unloading, pc,
                       cacheVars, image_url, image_data, job, orphans, timerArmed,
                       fetchCalls, updateCalls, inFlight, cycle, bench, optionsFlow,
                       entry_options, coordinator>>

\* A submission of the options form of the wizard's entry, valid by the
\* schema the form was shown with.  Nothing reloads the entry.
OptionsInit(settings, crop, b, k) ==
    LET cur == Merge(entry_data, entry_options)
        raw == OptionsRaw(settings, crop, b, k)
        user_input == OptionsSchema(cur, raw)
        errors == OptionsErrors(user_input)
    IN  /\ WizardEntry \in configured
        /\ DOMAIN raw \subseteq OptionsSchemaKeys(cur)
        /\ optionsFlow' = [submitted |-> TRUE, errors |-> errors]
        /\ entry_options' = IF errors = NoErrors THEN OptionsData(user_input)
                            ELSE entry_options
        /\ UNCHANGED <<cycleVars, bench, flow, entry_data, coordinator>>

FlowInit ==
    /\ FlowIdle
    /\ bench = NoBench
    /\ configured = {}
    /\ CycleIdle

\* The wizard with its connection tests, and the set-up of the created
\* entry with its first refresh.
FlowNext ==
    \/ \E source_type \in {"frigate", "snapshot"} : WizardUser(source_type)
    \/ \E choice \in FrigateChoices : WizardFrigate(choice)
    \/ \E url \in SnapshotUrls : WizardSnapshot(url)
    \/ \E button \in TestButtons : WizardTestConnection(button)
    \/ \E status \in TestStatuses : TestStatus(status)
    \/ \E body \in TestBodies : TestRead(body)
    \/ \E stage \in {"get", "read"} : TestFailed(stage)
    \/ \E choice \in SettingsChoices : WizardSettings(choice)
    \/ \E crop \in WizardCrops, b \in WizardBrightness, k \in WizardColour :
           WizardImageProcessing(crop, b, k)
    \/ SetupEntry(WizardEntry)
    \/ \E status \in FlowStatuses : ResponseStatus(WizardEntry, status)
    \/ \E body \in FlowBodies : ReadBody(WizardEntry, body)
    \/ JobRun(WizardEntry)
    \/ JobEncode(WizardEntry)
    \/ Publish(WizardEntry)
    \/ SetupContinue(WizardEntry)
    \/ SetupForward(WizardEntry)

FlowSpec == FlowInit /\ [][FlowNext]_vars

\* The wizard run without a connection test (the test_connection form is
\* left by one of its other submissions), the options flow of the entry it
\* created, and the set-up of that entry with its first refresh.
OptionsNext ==
    \/ \E source_type \in {"frigate", "snapshot"} : WizardUser(source_type)
    \/ \E choice \in FrigateChoices : WizardFrigate(choice)
    \/ \E url \in SnapshotUrls : WizardSnapshot(url)
    \/ \E button \in TestButtons \ {"test_connection"} : WizardTestConnection(button)
    \/ \E choice \in SettingsChoices : WizardSettings(choice)
    \/ \E crop \in WizardCrops, b \in WizardBrightness, k \in WizardColour :
           WizardImageProcessing(crop, b, k)
    \/ \E s \in OptionsSubmissions : OptionsInit(s[1], s[2], s[3], s[4])
    \/ SetupEntry(WizardEntry)
    \/ \E status \in FlowStatuses : ResponseStatus(WizardEntry, status)
    \/ \E body \in FlowBodies : ReadBody(WizardEntry, body)
    \/ JobRun(WizardEntry)
    \/ JobEncode(WizardEntry)
    \/ Publish(WizardEntry)
    \/ SetupContinue(WizardEntry)
    \/ SetupForward(WizardEntry)

OptionsSpec == FlowInit /\ [][OptionsNext]_vars

\* ------------------------------------------- set-up, options and unload

\* The entry of the wizard exists already, with the data and options of a
\* stored entry: it is set up, has its options updated by the options flow,
\* and is unloaded (and set up again: a reload).

LifeEntries == {"h1", "h2"}

LifeInit ==
    /\ configured = {WizardEntry}
    /\ CycleIdle
    /\ bench = NoBench
    /\ flow = NewFlow
    /\ optionsFlow = [submitted |-> FALSE, errors |-> <<>>]
    /\ \E e \in LifeEntries :
           /\ entry_data = EntryData(e)
           /\ entry_options = EntryOptions(e)
    /\ coordinator = NoData

LifeNext ==
    \/ SetupEntry(WizardEntry)
    \/ \E status \in FlowStatuses : ResponseStatus(WizardEntry, status)
    \/ \E body \in FlowBodies : ReadBody(WizardEntry, body)
    \/ JobRun(WizardEntry)
    \/ JobEncode(WizardEntry)
    \/ Publish(WizardEntry)
    \/ SetupContinue(WizardEntry)
    \/ SetupForward(WizardEntry)
    \/ \E s \in OptionsSubmissions : OptionsInit(s[1], s[2], s[3], s[4])
    \/ UnloadEntry(WizardEntry)
    \/ \E unload_ok \in BOOLEAN : UnloadContinue(WizardEntry, unload_ok)

LifeSpec == LifeInit /\ [][LifeNext]_vars

\* -------------------------------------------------- the two coordinators

\* The coordinator of hass_indoor_sun (entry h1: a frigate source, no crop,
\* no adjustment) and the coordinator of indoor_sun (entry o1) refresh side
\* by side: each refresh of h1 runs first, on any outcome, and the refresh of
\* o1 that follows meets what the refresh of h1 met.

Twins == {"h1", "o1"}

TwinBodies == Bodies \cup {BodyC, GarbageBody}

\* Both coordinators have resolved the same number of refreshes.
TwinSynced ==
    /\ updateCalls["h1"] = updateCalls["o1"]
    /\ pc["h1"] \notin InFlightStates
    /\ pc["o1"] \notin InFlightStates

\* The refresh of h1 has resolved and the one of o1 is due or under way.
TwinFollows ==
    /\ updateCalls["o1"] < updateCalls["h1"]
    /\ pc["h1"] \notin InFlightStates

\* The refresh of h1 was ended by the timeout.
MetTimeout ==
    pc["h1"] = "FAILED" /\ last_exception["h1"].cause = "TimeoutError"

\* The refresh of h1 was ended by a client error.
MetClientError ==
    /\ pc["h1"] = "FAILED"
    /\ last_exception["h1"].err =
           UpdateData("h1", FetchRaised("h1",
               Raised("ClientError", "Cannot connect to host"))).err

\* Where the refresh of h1 stood when it resolved.
MetStage ==
    IF cycle["h1"].bodyRead THEN "PROCESSING"
    ELSE IF cycle["h1"].status # 0 /\ StatusOk("h1", cycle["h1"].status) THEN "READING"
    ELSE "FETCHING"

TwinSetupEntry(e) ==
    /\ IF e = "h1"
       THEN TwinSynced /\ pc["o1"] = "IDLE" /\ entryState["o1"] = "NOT_LOADED"
       ELSE TwinFollows
    /\ SetupEntry(e)

TwinTick(e) ==
    /\ IF e = "h1" THEN TwinSynced /\ pc["o1"] = "IDLE" /\ timerArmed["o1"]
       ELSE TwinFollows
    /\ Tick(e)

TwinResponseStatus(e, status) ==
    /\ e = "o1" => cycle["h1"].status = status
    /\ ResponseStatus(e, status)

TwinFetchError(e) ==
    /\ e = "o1" => MetClientError /\ pc[e] = MetStage
    /\ FetchError(e)

TwinReadBody(e, body) ==
    /\ e = "o1" => cycle["h1"].bodyRead /\ image_data["h1"] = body
    /\ ReadBody(e, body)

TwinPublish(e) ==
    /\ e = "o1" => ~MetTimeout
    /\ Publish(e)

TwinJobRaised(e) ==
    /\ e = "o1" => ~MetTimeout
    /\ JobRaised(e)

TwinTimeout(e) ==
    /\ e = "o1" => MetTimeout /\ pc[e] = MetStage
    /\ Timeout(e)

TwinInit ==
    /\ configured = Twins
    /\ CycleIdle
    /\ bench = NoBench
    /\ FlowIdle

TwinNext ==
    \E e \in Twins :
        \/ TwinSetupEntry(e)
        \/ TwinTick(e)
        \/ \E status \in Statuses : TwinResponseStatus(e, status)
        \/ TwinFetchError(e)
        \/ \E body \in TwinBodies : TwinReadBody(e, body)
        \/ JobRun(e)
        \/ TwinPublish(e)
        \/ TwinJobRaised(e)
        \/ TwinTimeout(e)
        \/ OrphanDone(e)
        \/ TwinSynced /\ Rearm(e)
        \/ TwinSynced /\ SetupContinue(e)
        \/ TwinSynced /\ SetupForward(e)

TwinSpec == TwinInit /\ [][TwinNext]_vars

\* ------------------------------------------------------------ properties

\* C1: when a poll cycle has failed (fetch error, timeout or analysis
\* error), the cached result is the value it held when the cycle started and
\* last_update_success is false.
C1_FailedCycleKeepsCache ==
    \A e \in Entries :
        pc[e] = "FAILED" =>
            /\ data[e] = cycle[e].startData
            /\ ~last_update_success[e]

\* A cycle that reached the analyzer has failed while a good result was cached.
C1_Witness ==
    \E e \in Entries :
        pc[e] = "FAILED" /\ cycle[e].analyzed /\ ~IsNone(data[e])

\* C2: while a cycle is in flight (FETCHING, body read, or PROCESSING) the
\* refresh timer is not pending, so no tick starts a second fetch: the
\* fetch-call counter stays as it is and at most one cycle is in flight.
C2_SingleFlight ==
    [][\A e \in Entries :
          /\ inFlight'[e] <= 1
          /\ pc[e] \in InFlightStates =>
                 /\ ~timerArmed[e]
                 /\ fetchCalls'[e] = fetchCalls[e]]_vars

\* A scheduled cycle (not the first refresh) is in flight.
C2_Witness ==
    \E e \in Entries :
        /\ entryState[e] = "LOADED"
        /\ pc[e] = "PROCESSING"
        /\ inFlight[e] = 1
        /\ fetchCalls[e] >= 2

\* C3: once a response with a status other than 200 has arrived, the cycle
\* has failed with the failure recorded as UpdateFailed on the coordinator,
\* the analyzer was not invoked for the cycle, and the cached result is the
\* one the cycle started with.
C3_Non200FailsCycle ==
    \A e \in Entries :
        cycle[e].status \notin {0, 200} =>
            /\ ~cycle[e].analyzed
            /\ pc[e] \in {"FAILED", "IDLE"}
            /\ ~last_update_success[e]
            /\ last_exception[e].exc = "UpdateFailed"
            /\ data[e] = cycle[e].startData

\* A 204 has failed a cycle while a good result was cached.
C3_Witness ==
    \E e \in Entries :
        cycle[e].status = 204 /\ pc[e] = "FAILED" /\ ~IsNone(data[e])

\* C4: a cycle that is PROCESSING bytes that are no image (an empty body
\* with status 200) can only fail: the analyzer raises the decode error and
\* builds no result, the cache keeps its value, and the failure is recorded
\* as UpdateFailed with last_update_success false.
C4_DecodeErrorFailsCycle ==
    [][\A e \in Entries :
          (pc[e] = "PROCESSING" /\ ~image_data[e].parseable) =>
              /\ pc'[e] \in {"PROCESSING", "FAILED"}
              /\ data'[e] = data[e]
              /\ job'[e].stage \in {"queued", "raised", "none"}
              /\ job'[e].stage = "raised" =>
                     job'[e].out.exc = "UnidentifiedImageError"
              /\ pc'[e] = "FAILED" =>
                     /\ ~last_update_success'[e]
                     /\ last_exception'[e].exc = "UpdateFailed"]_vars

\* The decode error has failed a cycle while a good result was cached.
C4_Witness ==
    \E e \in Entries :
        /\ pc[e] = "FAILED"
        /\ ~image_data[e].parseable
        /\ last_exception[e].cause = "UnidentifiedImageError"
        /\ ~IsNone(data[e])

\* C5: the cache and the success flag change in one step, at publication:
\* while a cycle is in flight (the executor job building its result
\* included) a consumer reads the old result and the old flag; once
\* published it reads the complete result of this cycle's image and a true
\* flag; and the cache never holds anything but None or a complete result.
C5_AtomicPublish ==
    \A e \in Entries :
        /\ pc[e] \in InFlightStates =>
               /\ data[e] = cycle[e].startData
               /\ last_update_success[e] = cycle[e].startOk
        /\ pc[e] = "PUBLISHED" =>
               /\ ProcessImage(e, image_data[e]).ok
               /\ data[e] = ProcessImage(e, image_data[e]).value
               /\ last_update_success[e]
        /\ \/ IsNone(data[e])
           \/ \E b \in Bodies :
                  ProcessImage(e, b).ok /\ data[e] = ProcessImage(e, b).value

\* A result carrying image_data has replaced a different cached result.
C5_Witness ==
    \E e \in Entries :
        /\ pc[e] = "PUBLISHED"
        /\ EncodesImage(e)
        /\ ~IsNone(cycle[e].startData)
        /\ data[e] # cycle[e].startData

\* C6 as stated: the timeout covers only the fetch, so a cycle failed by the
\* timeout had not yet read its body and entered PROCESSING.
C6_TimeoutOnlyWhileFetching ==
    \A e \in Entries :
        (pc[e] = "FAILED" /\ last_exception[e].cause = "TimeoutError") =>
            ~cycle[e].bodyRead

\* C6, amended: the 10-second timeout covers the whole cycle: it can fail a
\* cycle exactly while the cycle is in flight, PROCESSING included, and a
\* cycle it fails keeps the cache and clears last_update_success.
C6_TimeoutCoversCycle ==
    \A e \in Entries :
        /\ pc[e] \in InFlightStates <=> ENABLED Timeout(e)
        /\ (pc[e] = "FAILED" /\ last_exception[e].cause = "TimeoutError") =>
               /\ data[e] = cycle[e].startData
               /\ ~last_update_success[e]

\* The timeout has failed a cycle that was PROCESSING.
C6_Witness ==
    \E e \in Entries :
        /\ pc[e] = "FAILED"
        /\ last_exception[e].cause = "TimeoutError"
        /\ cycle[e].bodyRead

\* The steps a poll cycle may take.  READING is the part of the spec's
\* FETCHING between the status line and the body.
CycleSteps ==
    {<<"IDLE", "FETCHING">>, <<"FETCHING", "READING">>, <<"FETCHING", "FAILED">>,
     <<"READING", "PROCESSING">>, <<"READING", "FAILED">>,
     <<"PROCESSING", "PUBLISHED">>, <<"PROCESSING", "FAILED">>,
     <<"PUBLISHED", "IDLE">>, <<"FAILED", "IDLE">>}

\* C7: a cycle goes IDLE, FETCHING, PROCESSING, PUBLISHED, or to FAILED from
\* FETCHING or PROCESSING, and back to IDLE; the analyzer is invoked only
\* when this cycle's fetch returned 200 and its body was read, and a result
\* is published only when this cycle's analyzer has returned.
C7_CycleOrder ==
    [][\A e \in Entries :
          /\ pc'[e] # pc[e] => <<pc[e], pc'[e]>> \in CycleSteps
          /\ cycle'[e].analyzed => cycle'[e].status = 200 /\ cycle'[e].bodyRead
          /\ pc'[e] = "PROCESSING" => cycle'[e].analyzed
          /\ pc'[e] = "PUBLISHED" =>
                 cycle'[e].analyzed /\ cycle'[e].analyzerReturned]_vars

\* A scheduled cycle has been published.
C7_Witness ==
    \E e \in Entries :
        pc[e] = "PUBLISHED" /\ ~cycle[e].first /\ cycle[e].analyzerReturned

\* C8: a cycle that leaves the fetch without its body is FAILED with the
\* error recorded; from FAILED the cycle only returns to IDLE, with no
\* request made; and a request is made only from IDLE, by the armed timer
\* (or by set-up for the first refresh).
C8_NoImmediateRetry ==
    [][\A e \in Entries :
          /\ (pc[e] \in {"FETCHING", "READING"} /\ pc'[e] \notin InFlightStates) =>
                 /\ pc'[e] = "FAILED"
                 /\ last_exception'[e].exc = "UpdateFailed"
                 /\ ~last_update_success'[e]
          /\ pc[e] = "FAILED" =>
                 /\ pc'[e] \in {"FAILED", "IDLE"}
                 /\ fetchCalls'[e] = fetchCalls[e]
          /\ fetchCalls'[e] # fetchCalls[e] =>
                 /\ pc[e] = "IDLE"
                 /\ timerArmed[e] \/ entryState[e] \in {"NOT_LOADED", "SETUP_RETRY"}]_vars

\* A scheduled cycle has failed while fetching.
C8_Witness ==
    \E e \in Entries :
        /\ entryState[e] = "LOADED"
        /\ pc[e] = "FAILED"
        /\ ~cycle[e].bodyRead

\* C9 as stated: after any failed cycle the instance keeps polling, so a
\* new cycle eventually starts.
C9_FailedThenPollsAgain ==
    \A e \in Entries :
        (pc[e] = "FAILED" /\ fetchCalls[e] < MaxCycles) ~> (pc[e] = "FETCHING")

\* C9, amended: after a failed scheduled cycle of an instance that was set
\* up, a new cycle eventually starts, and a later successful cycle publishes
\* a result and sets last_update_success back to true.  (A failed first
\* refresh ends set-up: see C10.)
C9_LoadedFailedThenPollsAgain ==
    /\ \A e \in Entries :
           (entryState[e] = "LOADED" /\ pc[e] = "FAILED" /\ fetchCalls[e] < MaxCycles)
               ~> (pc[e] = "FETCHING")
    /\ [][\A e \in Entries :
             (~last_update_success[e] /\ pc'[e] = "PUBLISHED") =>
                 /\ last_update_success'[e]
                 /\ ~IsNone(data'[e])]_vars

\* A cycle has been published after a failed one.
C9_Witness ==
    \E e \in Entries :
        pc[e] = "PUBLISHED" /\ ~cycle[e].startOk

\* C10 as stated: whatever is raised inside a cycle reaches the base class
\* as UpdateFailed, and a failing first refresh does not raise out of
\* async_setup_entry, in either component.
C10_NothingReachesHost ==
    \A e \in Entries :
        /\ last_exception[e].exc \in {"", "UpdateFailed"}
        /\ setupResult[e] # "ConfigEntryNotReady"

\* C10, amended: whatever is raised inside a cycle reaches the base class as
\* UpdateFailed and becomes that cycle's failure, and a failing first
\* refresh does not raise out of async_setup_entry of hass_indoor_sun, which
\* returns False; async_setup_entry of indoor_sun lets the
\* ConfigEntryNotReady of the first refresh through.
C10_CycleLocalFailure ==
    \A e \in Entries :
        /\ last_exception[e].exc \in {"", "UpdateFailed"}
        /\ pc[e] = "FAILED" => ~last_update_success[e]
        /\ Domain(e) = "hass_indoor_sun" =>
               /\ setupResult[e] \in {"none", "True", "False"}
               /\ (cycle[e].first /\ pc[e] = "IDLE" /\ ~last_update_success[e]) =>
                      setupResult[e] = "False"
        /\ (Domain(e) = "indoor_sun" /\ entryState[e] = "SETUP_RETRY") =>
               setupResult[e] = "ConfigEntryNotReady"

\* The first refresh of a hass_indoor_sun entry has failed on an exception
\* raised by the analyzer, and set-up has returned False.
C10_Witness ==
    \E e \in Entries :
        /\ Domain(e) = "hass_indoor_sun"
        /\ setupResult[e] = "False"
        /\ last_exception[e].cause = "UnidentifiedImageError"


\* C11: the URL a cycle requests is {base_url}/api/{camera}/latest.jpg when
\* the source is frigate (which it is when no source_type is stored) and is
\* base_url itself when the source is snapshot, for every configuration.
C11_RequestUrl ==
    bench.stage \in {"fetched", "analyzed", "compared"} =>
        LET source == IF Has(bench.data, "source_type")
                      THEN bench.data["source_type"] ELSE "frigate"
        IN  /\ source = "frigate" =>
                   bench.url = bench.data["base_url"] \o Text("/api/")
                                   \o Text(bench.data["camera"])
                                   \o Text("/latest.jpg")
            /\ source = "snapshot" => bench.url = bench.data["base_url"]

\* A snapshot source whose camera is not the wizard's placeholder has
\* requested its base_url.
C11_Witness ==
    /\ bench.stage = "fetched"
    /\ Has(bench.data, "source_type")
    /\ bench.data["source_type"] = "snapshot"
    /\ bench.data["camera"] = "porch"
    /\ bench.url = Text("http://cam/snap.jpg")


\* C12: every poll cycle issues exactly one HTTP GET, whether it succeeds or
\* fails: the number of session.get calls equals the number of cycles
\* started, a GET is issued only by the step that starts a cycle, and the
\* step that ends a cycle, published or failed, issues none.
C12_OneGetPerCycle ==
    /\ \A e \in Entries : fetchCalls[e] = updateCalls[e]
    /\ [][\A e \in Entries :
             /\ fetchCalls'[e] = updateCalls'[e]
             /\ fetchCalls'[e] \in {fetchCalls[e], fetchCalls[e] + 1}
             /\ fetchCalls'[e] # fetchCalls[e] =>
                    pc[e] = "IDLE" /\ pc'[e] = "FETCHING"
             /\ pc'[e] \in {"FAILED", "PUBLISHED"} =>
                    fetchCalls'[e] = fetchCalls[e]]_vars

\* A scheduled cycle has failed while fetching, after an earlier cycle.
C12_Witness ==
    \E e \in Entries :
        /\ pc[e] = "FAILED"
        /\ cycle[e].status = 0
        /\ updateCalls[e] >= 2
        /\ fetchCalls[e] = updateCalls[e]


\* C13 as stated: for an entry the wizard created (and whose options were
\* never changed), the provenance flags of every published result equal the
\* wizard's choices: cropped iff cropping was enabled, brightness_adjusted
\* iff brightness adjustment was enabled (the brightness then rescaled by the
\* configured range), color_adjusted iff colour adjustment was enabled.
C13_FlagsEqualWizardChoices ==
    (flow.step = "create_entry" /\ DOMAIN entry_options = {} /\ ~IsNone(data[WizardEntry])) =>
        /\ data[WizardEntry]["cropped"] = flow.config_data["enable_cropping"]
        /\ data[WizardEntry]["brightness_adjusted"] =
               flow.config_data["enable_brightness_adjustment"]
        /\ data[WizardEntry]["color_adjusted"] = flow.config_data["enable_color_adjustment"]
        /\ flow.config_data["enable_brightness_adjustment"] =>
               \E body \in FlowBodies :
                   LET img == SampledImage(coordinator, body)
                       n == Len(img.px)
                   IN  /\ n > 0
                       /\ data[WizardEntry]["brightness"] =
                              RoundHundredths(AdjustBrightness(
                                  BrightnessPercent(SumBand(img.px, 1, n),
                                                    SumBand(img.px, 2, n),
                                                    SumBand(img.px, 3, n), n),
                                  flow.config_data["min_brightness"],
                                  flow.config_data["max_brightness"]
                                      - flow.config_data["min_brightness"]))

\* The wizard enabled brightness adjustment with the range 20..80; the entry
\* holds the range but no switch, and the result published for the frame
\* (200, 100, 50) is flagged unadjusted and carries the raw 46.14 %.
C13_Witness ==
    /\ flow.step = "create_entry"
    /\ flow.config_data["enable_brightness_adjustment"]
    /\ DOMAIN entry_options = {}
    /\ Has(entry_data, "min_brightness")
    /\ entry_data["min_brightness"] = 20
    /\ ~Has(entry_data, "enable_brightness_adjustment")
    /\ ~IsNone(data[WizardEntry])
    /\ ~data[WizardEntry]["brightness_adjusted"]
    /\ data[WizardEntry]["brightness"] = 4614


\* A configuration dict keeps the ordering invariants: x0 < x1 and y0 < y1
\* when the crop coordinates are present, min < max when both brightness
\* bounds are, and min < max for every colour channel whose bounds are.
Ordered(d) ==
    /\ (\A k \in CropKeys : Has(d, k)) =>
           /\ d["top_left_x"] < d["bottom_right_x"]
           /\ d["top_left_y"] < d["bottom_right_y"]
    /\ (\A k \in BrightnessKeys : Has(d, k)) =>
           d["min_brightness"] < d["max_brightness"]
    /\ \A ch \in {"r", "g", "b"} :
           (Has(d, "min_color_" \o ch) /\ Has(d, "max_color_" \o ch)) =>
               d["min_color_" \o ch] < d["max_color_" \o ch]

\* A submission asks for a rectangle or a range that is out of order.
Unordered(d, cropOn, brightnessOn, colourOn) ==
    \/ /\ cropOn
       /\ \A k \in CropKeys : Has(d, k)
       /\ \/ d["top_left_x"] >= d["bottom_right_x"]
          \/ d["top_left_y"] >= d["bottom_right_y"]
    \/ /\ brightnessOn
       /\ \A k \in BrightnessKeys : Has(d, k)
       /\ d["min_brightness"] >= d["max_brightness"]
    \/ /\ colourOn
       /\ \E ch \in {"r", "g", "b"} :
              /\ Has(d, "min_color_" \o ch) /\ Has(d, "max_color_" \o ch)
              /\ d["min_color_" \o ch] >= d["max_color_" \o ch]

\* C14: after any sequence of wizard and options submissions, the entry's
\* data, the merged configuration and the coordinator constructed from it
\* keep the ordering invariants; every submission that asks for an unordered
\* rectangle or range is answered with an error; and a submission answered
\* with an error stores nothing (entry data, options and the wizard's
\* accumulated data stay as they were, and the wizard stays at the step of
\* the submission).
C14_OrderedConfigOnly ==
    /\ [](/\ ~IsNone(entry_data) =>
                 Ordered(entry_data) /\ Ordered(Merge(entry_data, entry_options))
          /\ ~IsNone(coordinator) =>
                 /\ Len(coordinator.crop_coordinates) > 0 =>
                        /\ coordinator.crop_coordinates[1] < coordinator.crop_coordinates[3]
                        /\ coordinator.crop_coordinates[2] < coordinator.crop_coordinates[4]
                 /\ coordinator.min_brightness < coordinator.max_brightness
                 /\ \A i \in 1..3 : coordinator.min_color[i] < coordinator.max_color[i]
          /\ flow.step = "image_processing" =>
                 \A crop \in WizardCrops, b \in WizardBrightness, k \in WizardColour :
                     LET ui == ImageProcessingSchema(ImageProcessingRaw(crop, b, k))
                     IN  Unordered(ui, ui["enable_cropping"],
                                   ui["enable_brightness_adjustment"],
                                   ui["enable_color_adjustment"]) =>
                             /\ ImageProcessingErrors(ui) # NoErrors
                             /\ ImageProcessingStep(flow, ui) =
                                    ShowForm(flow, "image_processing",
                                             ImageProcessingErrors(ui))
          /\ ~IsNone(entry_data) =>
                 \A s \in OptionsSubmissions :
                     LET cur == Merge(entry_data, entry_options)
                         raw == OptionsRaw(s[1], s[2], s[3], s[4])
                     IN  (/\ DOMAIN raw \subseteq OptionsSchemaKeys(cur)
                          /\ Unordered(OptionsSchema(cur, raw).vals, TRUE, TRUE, TRUE)) =>
                             OptionsErrors(OptionsSchema(cur, raw)) # NoErrors)
    /\ [][/\ flow'.errors # NoErrors =>
                 /\ entry_data' = entry_data
                 /\ flow'.config_data = flow.config_data
                 /\ flow'.test_requests = flow.test_requests => flow'.step = flow.step
          /\ optionsFlow'.errors # NoErrors => entry_options' = entry_options
          /\ entry_data' # entry_data =>
                 flow.step = "image_processing" /\ flow'.errors = NoErrors
          /\ entry_options' # entry_options => optionsFlow'.errors = NoErrors]_vars

\* An options submission with an unordered rectangle has been rejected while
\* the entry holds options stored by an earlier submission, and the wizard
\* had accepted an unordered rectangle with cropping switched off.
C14_Witness ==
    /\ flow.step = "create_entry"
    /\ ~flow.config_data["enable_cropping"]
    /\ Has(flow.config_data, "top_left_x")
    /\ ~Has(entry_data, "top_left_x")
    /\ optionsFlow.errors = BaseError("crop_coordinates_invalid")
    /\ Has(entry_options, "top_left_x")
    /\ ~IsNone(coordinator)
    /\ coordinator.crop_coordinates = <<0, 0, 2, 1>>


\* The keys of the brightness adjustment and of the colour adjustment in a
\* configuration.
BrightnessSettingKeys == {"enable_brightness_adjustment"} \cup BrightnessKeys

ColourSettingKeys == {"enable_color_adjustment"} \cup ColourKeys

\* The bench case's result had its configuration carried other settings
\* under `keys`.
BenchOutWith(keys, part) ==
    HassBuildResult(
        HassCoordinatorInit(
            Merge(Restrict(bench.data, (DOMAIN bench.data) \ keys), part), <<>>),
        bench.body)

\* The bench case has been analyzed and the analyzer returned a result.
BenchAnalyzed == bench.stage \in {"analyzed", "compared"} /\ bench.out.ok

\* C15: the two adjustments are not chained.  The published brightness is
\* the (possibly rescaled) luminance of the unadjusted mean of the sampled
\* pixels, the one published with the colour adjustment off, whatever the
\* colour range is; the published r, g, b are the ones published with the
\* brightness adjustment off, whatever the brightness range is.
C15_AdjustmentsIndependent ==
    BenchAnalyzed =>
        LET c == BenchCoordinator
            img == SampledImage(c, bench.body)
            n == Len(img.px)
            raw == BrightnessPercent(SumBand(img.px, 1, n), SumBand(img.px, 2, n),
                                     SumBand(img.px, 3, n), n)
            span == c.max_brightness - c.min_brightness
        IN  /\ bench.out.value.brightness =
                   RoundHundredths(IF c.brightness_adjustment_enabled /\ span > 0
                                   THEN AdjustBrightness(raw, c.min_brightness, span)
                                   ELSE raw)
            /\ BenchOutWith(ColourSettingKeys, <<>>).value.brightness =
                   bench.out.value.brightness
            /\ LET other == BenchOutWith(BrightnessSettingKeys, <<>>).value
               IN  /\ other.r = bench.out.value.r
                   /\ other.g = bench.out.value.g
                   /\ other.b = bench.out.value.b

\* A frame of colour (200, 100, 50) has been analyzed with both adjustments
\* on: the colour range 50..200 moved every channel, the brightness range
\* 20..80 moved the brightness of 46.14 % to 43.56 %.
C15_Witness ==
    /\ BenchAnalyzed
    /\ bench.out.value.brightness_adjusted
    /\ bench.out.value.color_adjusted
    /\ bench.out.value.brightness = 4356
    /\ bench.out.value.rgb_string = "255, 85, 0"


\* 10000 times the luminance 0.2126 R + 0.7152 G + 0.0722 B summed over the
\* sampled pixels of the bench case: the brightness is
\* BenchLuma / (25500 * n) percent for n pixels.
BenchLuma ==
    LET img == SampledImage(BenchCoordinator, bench.body)
        n == Len(img.px)
    IN  2126 * SumBand(img.px, 1, n) + 7152 * SumBand(img.px, 2, n)
            + 722 * SumBand(img.px, 3, n)

BenchPixels == Len(SampledImage(BenchCoordinator, bench.body).px)

\* C16: with the brightness adjustment on, the range 0..100 is a no-op (the
\* published brightness is the one published without adjustment); with the
\* range 20..80 a brightness of 20 % or less is published as 0, one of 80 %
\* or more as 100, and one in between as (brightness - 20) / 60 * 100 rounded
\* to the nearest hundredth.
C16_BrightnessRescale ==
    (BenchAnalyzed /\ BenchCoordinator.brightness_adjustment_enabled) =>
        LET c == BenchCoordinator
            n == BenchPixels
            S == BenchLuma
            out == bench.out.value.brightness
        IN  /\ bench.out.value.brightness_adjusted
            /\ (c.min_brightness = 0 /\ c.max_brightness = 100) =>
                   out = BenchOutWith(BrightnessSettingKeys, <<>>).value.brightness
            /\ (c.min_brightness = 20 /\ c.max_brightness = 80) =>
                   /\ S <= 510000 * n => out = 0
                   /\ S >= 2040000 * n => out = 10000
                   /\ (S > 510000 * n /\ S < 2040000 * n) =>
                          /\ 2 * Abs(out * 153 * n - (S - 510000 * n)) <= 153 * n
                          /\ out >= 0 /\ out <= 10000

\* A grey frame of exactly 80 % brightness has been analyzed with the range
\* 20..80 and published as 100 %.
C16_Witness ==
    /\ BenchAnalyzed
    /\ BenchCoordinator.brightness_adjustment_enabled
    /\ BenchCoordinator.min_brightness = 20
    /\ BenchCoordinator.max_brightness = 80
    /\ BenchLuma = 2040000 * BenchPixels
    /\ BenchPixels > 1
    /\ bench.out.value.brightness = 10000


\* Channel means the rescale of a bench case is compared with.
ProbeMeans == {0, 31, 50, 51, 100, 150, 200, 255}

\* C17: with the colour adjustment on and min < max for a channel, the
\* published channel is 0 when the channel's mean is at or below min, 255
\* when it is at or above max, between 0 and 255 always, and the rescale is
\* monotonic: a smaller mean never maps to a larger value.
C17_ColourRescaleMonotonicClamped ==
    (BenchAnalyzed /\ BenchCoordinator.color_adjustment_enabled) =>
        LET c == BenchCoordinator
            img == SampledImage(c, bench.body)
            n == Len(img.px)
            out == <<bench.out.value.r, bench.out.value.g, bench.out.value.b>>
        IN  /\ bench.out.value.color_adjusted
            /\ \A i \in 1..3 :
                   LET total == SumBand(img.px, i, n)
                       vmin == c.min_color[i]
                       vmax == c.max_color[i]
                   IN  vmin < vmax =>
                           /\ out[i] >= 0 /\ out[i] <= 255
                           /\ total <= vmin * n => out[i] = 0
                           /\ total >= vmax * n => out[i] = 255
                           /\ \A v \in ProbeMeans :
                                  LET probe == Scale(v, 1, vmin, vmax)
                                  IN  /\ v * n <= total => probe <= out[i]
                                      /\ v * n >= total => probe >= out[i]
                                      /\ v <= vmin => probe = 0
                                      /\ v >= vmax => probe = 255

\* A frame of colour (200, 100, 50) has been analyzed with the colour range
\* 50..200 alone: red, at the maximum, is published as 255, blue, at the
\* minimum, as 0, and green in between as 85.
C17_Witness ==
    /\ BenchAnalyzed
    /\ BenchCoordinator.color_adjustment_enabled
    /\ ~BenchCoordinator.brightness_adjustment_enabled
    /\ BenchCoordinator.min_color = <<50, 50, 50>>
    /\ BenchCoordinator.max_color = <<200, 200, 200>>
    /\ bench.body = SolidImage(1, 1, <<200, 100, 50>>)
    /\ <<bench.out.value.r, bench.out.value.g, bench.out.value.b>> = <<255, 85, 0>>


\* C18: the published r, g, b are integers nearest to the final channel
\* values: without colour adjustment within one half of the channel's mean,
\* with colour adjustment the integer the rescale has cast the channel to
\* (its rounding changes nothing); and rgb_string renders exactly the three
\* published integers, separated by a comma and a space.
C18_RoundedChannelsAndLabel ==
    BenchAnalyzed =>
        LET c == BenchCoordinator
            img == SampledImage(c, bench.body)
            n == Len(img.px)
            v == bench.out.value
            out == <<v.r, v.g, v.b>>
        IN  /\ \A i \in 1..3 :
                   LET total == SumBand(img.px, i, n)
                   IN  /\ out[i] \in 0..255
                       /\ ~c.color_adjustment_enabled =>
                              2 * Abs(out[i] * n - total) <= n
                       /\ c.color_adjustment_enabled =>
                              out[i] = Scale(total, n, c.min_color[i], c.max_color[i])
            /\ v.rgb_string = ToString(v.r) \o ", " \o ToString(v.g) \o ", "
                                  \o ToString(v.b)

\* The four-pixel frame with channel means 101.5, 114 and 126.75 has been
\* analyzed without adjustment and published as 102, 114, 127.
C18_Witness ==
    /\ BenchAnalyzed
    /\ bench.body = BodyC
    /\ BenchPixels = 4
    /\ ~BenchCoordinator.color_adjustment_enabled
    /\ bench.out.value.rgb_string = "102, 114, 127"
    /\ bench.out.value.b = 127


\* The bench case is a solid-colour frame analyzed with no crop and no
\* adjustment.
BenchPlainSolid ==
    /\ bench.body \in SolidBodies
    /\ Len(BenchCoordinator.crop_coordinates) = 0
    /\ ~BenchCoordinator.brightness_adjustment_enabled
    /\ ~BenchCoordinator.color_adjustment_enabled

\* A result publishes the pixel's channels unchanged and, in hundredths of a
\* percent, (0.2126 r + 0.7152 g + 0.0722 b) / 255 * 100 rounded to two
\* decimals.
SolidResult(result, pixel) ==
    /\ result.ok
    /\ <<result.value.r, result.value.g, result.value.b>> = pixel
    /\ 2 * Abs(255 * result.value.brightness
                   - (2126 * pixel[1] + 7152 * pixel[2] + 722 * pixel[3])) <= 255

\* C19: for every solid-colour frame of any size, with no crop and no
\* adjustment, both analyzers publish r, g, b unchanged and the brightness
\* (0.2126 r + 0.7152 g + 0.0722 b) / 255 * 100 rounded to two decimals.
C19_SolidColour ==
    BenchPlainSolid =>
        /\ bench.stage \in {"analyzed", "compared"} =>
               SolidResult(bench.out, bench.body.px[1])
        /\ bench.stage = "compared" => SolidResult(bench.old, bench.body.px[1])

\* A 2 x 1 frame of colour (200, 100, 50) has been analyzed by both
\* analyzers: 46.14 %.
C19_Witness ==
    /\ BenchPlainSolid
    /\ bench.stage = "compared"
    /\ bench.body = SolidImage(2, 1, <<200, 100, 50>>)
    /\ bench.out.value.brightness = 4614
    /\ bench.old.value.brightness = 4614
    /\ bench.old.value.rgb_string = "200, 100, 50"


\* The bench case crops a solid-colour frame to a rectangle inside it.
BenchCropInside ==
    LET box == BenchCoordinator.crop_coordinates
    IN  /\ bench.body \in SolidBodies
        /\ Len(box) > 0
        /\ 0 <= box[1] /\ box[1] < box[3] /\ box[3] <= bench.body.w
        /\ 0 <= box[2] /\ box[2] < box[4] /\ box[4] <= bench.body.h

\* C20: cropping a uniform-colour frame to a rectangle inside it (x0 < x1,
\* y0 < y1), under any adjustment, publishes the same brightness, r, g, b and
\* rgb_string as analyzing the uncropped frame with the same adjustment.
C20_CropOfUniformFrame ==
    (bench.stage \in {"analyzed", "compared"} /\ BenchCropInside) =>
        LET whole == BenchOutWith(CropKeys, <<>>)
        IN  /\ bench.out.ok /\ whole.ok
            /\ bench.out.value.cropped /\ ~whole.value.cropped
            /\ bench.out.value.brightness = whole.value.brightness
            /\ bench.out.value.r = whole.value.r
            /\ bench.out.value.g = whole.value.g
            /\ bench.out.value.b = whole.value.b
            /\ bench.out.value.rgb_string = whole.value.rgb_string

\* The lower right pixel alone of a frame of colour (10, 20, 31) has been
\* analyzed.
C20_Witness ==
    /\ bench.stage = "analyzed"
    /\ BenchCropInside
    /\ BenchCoordinator.crop_coordinates[1] > 0
    /\ BenchCoordinator.crop_coordinates[2] > 0
    /\ BenchCoordinator.crop_coordinates[3] = bench.body.w
    /\ BenchCoordinator.crop_coordinates[4] = bench.body.h
    /\ BenchPixels = 1
    /\ bench.out.value.cropped
    /\ bench.out.value.rgb_string = "10, 20, 31"


\* C21: every result the analyzer returns, for every frame, crop, adjustment
\* and range, has a brightness between 0 and 100 % (0 and 10000 hundredths)
\* and integers r, g, b between 0 and 255.
C21_ResultRanges ==
    BenchAnalyzed =>
        /\ bench.out.value.brightness \in 0..10000
        /\ bench.out.value.r \in 0..255
        /\ bench.out.value.g \in 0..255
        /\ bench.out.value.b \in 0..255

\* A white frame has been analyzed with the brightness range 20..80 and the
\* colour range 50..200, both of which it exceeds: the clamps have acted.
C21_Witness ==
    /\ BenchAnalyzed
    /\ BenchCoordinator.brightness_adjustment_enabled
    /\ BenchCoordinator.color_adjustment_enabled
    /\ BenchCoordinator.max_brightness = 80
    /\ BenchCoordinator.max_color = <<200, 200, 200>>
    /\ BenchLuma = 2550000 * BenchPixels
    /\ bench.out.value.brightness = 10000
    /\ bench.out.value.r = 255


\* The crop rectangle of entry e's coordinator holds no pixel.
ZeroPixelCrop(e) ==
    /\ Domain(e) = "hass_indoor_sun"
    /\ LET box == Coordinator(e).crop_coordinates
       IN  Len(box) > 0 /\ (box[3] <= box[1] \/ box[4] <= box[2])

\* C22: a coordinator whose crop rectangle holds no pixel never publishes:
\* its analysis job raises instead of returning a result, the cycle that
\* analyzed a frame ends FAILED with UpdateFailed recorded and the
\* last-success flag false, and the cache stays as it was (unset).
C22_ZeroPixelCropFails ==
    \A e \in Entries :
        ZeroPixelCrop(e) =>
            /\ data[e] = NoData
            /\ pc[e] # "PUBLISHED"
            /\ job[e].stage \in {"none", "queued", "raised"}
            /\ job[e].out.value = NoData
            /\ (cycle[e].analyzed /\ pc[e] \in {"FAILED", "IDLE"}) =>
                   /\ ~last_update_success[e]
                   /\ last_exception[e].exc = "UpdateFailed"
                   /\ ~cycle[e].analyzerReturned

\* A parseable frame has been analyzed under a crop of no pixels: the job
\* raised ZeroDivisionError and the cycle has failed with it as the cause.
C22_Witness ==
    /\ ZeroPixelCrop("h3")
    /\ pc["h3"] = "FAILED"
    /\ image_data["h3"] = BodyB
    /\ cycle["h3"].analyzed
    /\ last_exception["h3"].cause = "ZeroDivisionError"
    /\ data["h3"] = NoData


\* ------------------------------------------------------------ the entities

\* Fault variant: the sensors are available whatever the last refresh did.
SensorAvailableAlways(success) == TRUE

\* IndoorSunSensorBase.available: bool(coordinator.last_update_success).
SensorAvailable(success) == success

\* A property's value: None, or the value it returns.
NoValue == [none |-> TRUE]

Value(v) == [value |-> v]

\* BrightnessSensor.native_value, of the cache `d`.
BrightnessNativeValue(d) ==
    IF IsNone(d) THEN NoValue
    ELSE IF Has(d, "brightness") THEN Value(d["brightness"]) ELSE NoValue

\* RGBSensor.native_value, of the cache `d`.
RGBNativeValue(d) ==
    IF IsNone(d) THEN NoValue
    ELSE IF Has(d, "rgb_string") THEN Value(d["rgb_string"]) ELSE NoValue

\* The sensor platform of entry e has been forwarded: its sensors exist.
HasSensors(e) == "sensor" \in forwarded[e]

\* C23: the sensors of an instance are available exactly when its
\* last-success flag is true; while the last cycle has failed they are
\* unavailable and still return the values of the last good result: the step
\* that fails a cycle leaves both sensors' native_value as it was, and after
\* it they are what they were when the cycle started.
C23_UnavailableKeepsValue ==
    /\ [](\A e \in Entries :
              HasSensors(e) =>
                  /\ SensorAvailable(last_update_success[e]) = last_update_success[e]
                  /\ pc[e] = "FAILED" =>
                         /\ ~SensorAvailable(last_update_success[e])
                         /\ BrightnessNativeValue(data[e]) =
                                BrightnessNativeValue(cycle[e].startData)
                         /\ RGBNativeValue(data[e]) = RGBNativeValue(cycle[e].startData)
                         /\ BrightnessNativeValue(data[e]) # NoValue
                         /\ RGBNativeValue(data[e]) # NoValue)
    /\ [][\A e \in Entries :
              (HasSensors(e) /\ pc[e] # "FAILED" /\ pc'[e] = "FAILED") =>
                  /\ ~SensorAvailable(last_update_success'[e])
                  /\ BrightnessNativeValue(data'[e]) = BrightnessNativeValue(data[e])
                  /\ RGBNativeValue(data'[e]) = RGBNativeValue(data[e])]_vars

\* The sensors of the snapshot entry are unavailable after a failed cycle
\* and still show the brightness and the colour published before it.
C23_Witness ==
    /\ HasSensors("h2")
    /\ pc["h2"] = "FAILED"
    /\ ~SensorAvailable(last_update_success["h2"])
    /\ BrightnessNativeValue(data["h2"]) = Value(10000)
    /\ RGBNativeValue(data["h2"]) = Value("255, 255, 255")


\* The flags of the result `d` an entity copies into its attributes.
ProvenanceAttributes(d) ==
    Restrict(d, {"cropped", "brightness_adjusted", "color_adjusted"})

\* The configured rectangle and ranges an entity reads from the coordinator.
RangeAttributes(c) ==
    Merge(Merge(
        IF Len(c.crop_coordinates) > 0
        THEN [crop_coordinates |->
                 [top_left_x |-> c.crop_coordinates[1],
                  top_left_y |-> c.crop_coordinates[2],
                  bottom_right_x |-> c.crop_coordinates[3],
                  bottom_right_y |-> c.crop_coordinates[4]]]
        ELSE <<>>,
        IF c.brightness_adjustment_enabled
        THEN [brightness_range |-> [min |-> c.min_brightness, max |-> c.max_brightness]]
        ELSE <<>>),
        IF c.color_adjustment_enabled
        THEN [color_range |->
                 [min_r |-> c.min_color[1], min_g |-> c.min_color[2],
                  min_b |-> c.min_color[3], max_r |-> c.max_color[1],
                  max_g |-> c.max_color[2], max_b |-> c.max_color[3]]]
        ELSE <<>>)

\* IndoorSunSensorBase.extra_state_attributes: the entry is merged at every
\* access; c is the coordinator, url its image_url, d its data.
SensorAttributes(entryData, entryOptions, c, url, d) ==
    IF IsNone(d) THEN <<>>
    ELSE LET merged == Merge(entryData, entryOptions)
         IN  Merge(Merge([camera |-> merged["camera"],
                          source_type |-> Get(d, "source_type", "frigate"),
                          image_url |-> url,
                          scan_interval |-> Get(merged, "scan_interval", 60)],
                         ProvenanceAttributes(d)),
                   RangeAttributes(c))

\* IndoorSunImageEntity.extra_state_attributes.
ImageAttributes(entryData, entryOptions, c, url, d) ==
    IF IsNone(d) THEN <<>>
    ELSE LET merged == Merge(entryData, entryOptions)
         IN  Merge(Merge(Merge([camera |-> merged["camera"],
                                source_type |-> c.source_type,
                                image_url |-> url,
                                scan_interval |-> Get(merged, "scan_interval", 60)],
                               ProvenanceAttributes(d)),
                         RangeAttributes(c)),
                   [current_brightness |-> d["brightness"], current_r |-> d["r"],
                    current_g |-> d["g"], current_b |-> d["b"],
                    current_rgb_string |-> d["rgb_string"]])

\* The attributes the sensors and the image entity of the wizard's entry
\* show now.
FlowSensorAttributes ==
    SensorAttributes(entry_data, entry_options, coordinator,
                     image_url[WizardEntry], data[WizardEntry])

FlowImageAttributes ==
    ImageAttributes(entry_data, entry_options, coordinator,
                    image_url[WizardEntry], data[WizardEntry])

\* C24: the merged configuration is applied once, at construction: whatever
\* options have been stored since, the configuration values the entities of
\* a live instance show (camera, scan_interval) are the ones its coordinator
\* operates with.
C24_AttributesEqualCoordinator ==
    (HasSensors(WizardEntry) /\ ~IsNone(data[WizardEntry])) =>
        /\ FlowSensorAttributes["camera"] = coordinator.camera
        /\ FlowSensorAttributes["scan_interval"] = coordinator.scan_interval
        /\ FlowImageAttributes["camera"] = coordinator.camera
        /\ FlowImageAttributes["scan_interval"] = coordinator.scan_interval

\* Options have been stored for a live instance that has published: its
\* coordinator was constructed from the entry as it was before.
C24_Witness ==
    /\ HasSensors(WizardEntry)
    /\ ~IsNone(data[WizardEntry])
    /\ optionsFlow.submitted
    /\ optionsFlow.errors = NoErrors
    /\ coordinator # HassCoordinatorInit(entry_data, entry_options)
    /\ coordinator.scan_interval = 30
    /\ Has(entry_options, "scan_interval")


\* This step changes something of instance e: a tick, a step of its cycle,
\* its publish or failure, its set-up or its unload.
Touched(e) ==
    \/ pc'[e] # pc[e]
    \/ data'[e] # data[e]
    \/ last_update_success'[e] # last_update_success[e]
    \/ last_exception'[e] # last_exception[e]
    \/ image_url'[e] # image_url[e]
    \/ image_data'[e] # image_data[e]
    \/ job'[e] # job[e]
    \/ orphans'[e] # orphans[e]
    \/ timerArmed'[e] # timerArmed[e]
    \/ fetchCalls'[e] # fetchCalls[e]
    \/ entryState'[e] # entryState[e]
    \/ setupResult'[e] # setupResult[e]
    \/ forwarded'[e] # forwarded[e]
    \/ (e \in registry') # (e \in registry)

\* C25: instances do not interact: a step of one instance (tick, publish,
\* failure, set-up, unload) leaves the cached result, the last-success flag,
\* the recorded exception, the last-attempted URL and the registry entry of
\* every other instance unchanged.
C25_InstancesIndependent ==
    [][\A e \in Entries : \A f \in Entries \ {e} :
           Touched(e) =>
               /\ data'[f] = data[f]
               /\ last_update_success'[f] = last_update_success[f]
               /\ last_exception'[f] = last_exception[f]
               /\ image_url'[f] = image_url[f]
               /\ (f \in registry') = (f \in registry)
               /\ forwarded'[f] = forwarded[f]]_vars

\* Both instances are registered and each has met a scheduled refresh, that
\* of the frigate instance failed and that of the snapshot instance
\* published (neither is answered yet, so the later of the two ticks found
\* the other instance live); the frigate instance keeps the result of its
\* first refresh, and the unload of the snapshot instance is under way.
C25_Witness ==
    /\ configured = {"h1", "h2"}
    /\ {"h1", "h2"} \subseteq registry
    /\ entryState["h1"] = "LOADED"
    /\ entryState["h2"] = "UNLOAD_IN_PROGRESS"
    /\ pc["h1"] = "FAILED"
    /\ ~cycle["h1"].first
    /\ ~last_update_success["h1"]
    /\ ~IsNone(data["h1"])
    /\ pc["h2"] = "PUBLISHED"
    /\ ~cycle["h2"].first
    /\ ~IsNone(data["h2"])
    /\ image_url["h1"] # image_url["h2"]


\* C26: a result carries image_data exactly when the coordinator's
\* enable_image_entity is set, and then it is the base64 of the sampled
\* (possibly cropped) image saved as JPEG with quality 85.
C26_ImageDataIffOption ==
    BenchAnalyzed =>
        /\ Has(bench.out.value, "image_data") = BenchCoordinator.enable_image_entity
        /\ Has(bench.out.value, "image_data") =>
               LET jpeg == ReadFile(B64Decode(bench.out.value["image_data"]))
                   img == SampledImage(BenchCoordinator, bench.body)
               IN  /\ jpeg.format = "JPEG"
                   /\ jpeg.quality = 85
                   /\ <<jpeg.w, jpeg.h>> = <<img.w, img.h>>
                   /\ jpeg.px = img.px

\* A cropped frame has been analyzed with the image entity enabled: the
\* result carries the crop re-encoded.
C26_Witness ==
    /\ BenchAnalyzed
    /\ BenchCoordinator.enable_image_entity
    /\ bench.out.value["cropped"]
    /\ Has(bench.out.value, "image_data")
    /\ ReadFile(B64Decode(bench.out.value["image_data"])).quality = 85


\* The URL entry e's configuration names: the Frigate path of its camera, or
\* the snapshot URL.
ConfiguredUrl(e) ==
    LET merged == Merge(EntryData(e), EntryOptions(e))
    IN  IF Get(merged, "source_type", "frigate") = "frigate"
        THEN merged["base_url"] \o Text("/api/") \o Text(merged["camera"])
                 \o Text("/latest.jpg")
        ELSE merged["base_url"]

\* C27: the last-attempted URL of a hass_indoor_sun coordinator is null
\* exactly until its first cycle starts and from then on the URL of the
\* cycle started last, whether that cycle is in flight, has published or has
\* failed; the step that issues a request has recorded its URL; and the
\* entities expose that URL.
C27_LastAttemptedUrl ==
    /\ [](\A e \in Entries :
              Domain(e) = "hass_indoor_sun" =>
                  /\ (image_url[e] = NoText) = (updateCalls[e] = 0)
                  /\ updateCalls[e] > 0 => image_url[e] = ConfiguredUrl(e)
                  /\ (HasSensors(e) /\ ~IsNone(data[e])) =>
                         SensorAttributes(EntryData(e), EntryOptions(e), Coordinator(e),
                                          image_url[e], data[e])["image_url"]
                             = ConfiguredUrl(e))
    /\ [][\A e \in Entries :
              (Domain(e) = "hass_indoor_sun" /\ fetchCalls'[e] > fetchCalls[e]) =>
                  image_url'[e] = ConfiguredUrl(e)]_vars

\* A scheduled cycle of the snapshot instance has failed: the URL it
\* attempted is still recorded and exposed.
C27_Witness ==
    /\ pc["h2"] = "FAILED"
    /\ HasSensors("h2")
    /\ ~cycle["h2"].first
    /\ ~last_update_success["h2"]
    /\ image_url["h2"] = Text("http://cam/snap.jpg")
    /\ SensorAttributes(EntryData("h2"), EntryOptions("h2"), Coordinator("h2"),
                        image_url["h2"], data["h2"])["image_url"]
           = Text("http://cam/snap.jpg")


\* The keys the source step of the chosen source has stored.
SourceStepKeys(config_data) ==
    IF config_data["source_type"] = "frigate"
    THEN {"protocol", "host", "port", "camera_name", "base_url", "camera"}
    ELSE {"snapshot_url", "base_url", "camera"}

\* C28: the wizard creates the entry only on its terminal step.  The entry
\* appears only by a step from image_processing that ends without error,
\* and once; the flow that has ended with create_entry has its entry (a test
\* request it left waiting may show the test_connection form once more, to
\* no effect on the entry); the steps after the source step are reached only
\* with the source selected and the matching source step's input stored;
\* and the created entry holds source_type, base_url, camera and
\* scan_interval (and the source's keys), as the wizard accumulated them.
C28_EntryOnlyOnTerminalStep ==
    /\ [](/\ flow.step = "create_entry" => ~IsNone(entry_data)
          /\ ~IsNone(entry_data) = (WizardEntry \in configured)
          /\ ~IsNone(entry_data) => flow.step \in {"create_entry", "test_connection"}
          /\ flow.step \in {"frigate", "snapshot"} =>
                 /\ Has(flow.config_data, "source_type")
                 /\ flow.config_data["source_type"] = flow.step
          /\ flow.step \in {"test_connection", "settings", "image_processing",
                            "create_entry"} =>
                 /\ Has(flow.config_data, "source_type")
                 /\ SourceStepKeys(flow.config_data) \subseteq DOMAIN flow.config_data
          /\ flow.step \in {"image_processing", "create_entry"} =>
                 Has(flow.config_data, "scan_interval")
          /\ ~IsNone(entry_data) =>
                 /\ {"source_type", "base_url", "camera", "scan_interval"}
                        \subseteq DOMAIN entry_data
                 /\ \A key \in {"source_type", "base_url", "camera", "scan_interval"} :
                        entry_data[key] = flow.config_data[key]
                 /\ entry_data["source_type"] \in {"frigate", "snapshot"}
                 /\ (SourceStepKeys(flow.config_data) \ {"base_url", "camera"})
                        \subseteq DOMAIN entry_data)
    /\ [][entry_data' # entry_data =>
              /\ IsNone(entry_data)
              /\ flow.step = "image_processing"
              /\ flow'.step = "create_entry"
              /\ flow'.errors = NoErrors]_vars

\* A snapshot wizard has created its entry after a rejected URL and a
\* rejected image_processing submission were corrected.
C28_Witness ==
    /\ flow.step = "create_entry"
    /\ ~IsNone(entry_data)
    /\ entry_data["source_type"] = "snapshot"
    /\ entry_data["base_url"] = Text("http://cam/snap.jpg")
    /\ entry_data["camera"] = "snapshot"
    /\ entry_data["scan_interval"] = 60
    /\ Has(entry_data, "top_left_x")


\* The _process_image jobs of entry e running on executor threads: the one
\* the cycle in flight awaits, and those no cycle awaits any more (abandoned
\* by a cycle that timed out, or left by a coordinator that a new set-up
\* replaced; the latter needs an unload, which Spec does not take).
RunningJobs(e) ==
    orphans[e] + (IF job[e].stage \in {"queued", "built"} THEN 1 ELSE 0)

\* C29: at most one analysis job of a hass_indoor_sun coordinator (one per
\* entry here) is running at any time, and no abandoned job is running while
\* a cycle is in flight.
C29_AtMostOneJob ==
    \A e \in Entries :
        Domain(e) = "hass_indoor_sun" =>
            /\ RunningJobs(e) <= 1
            /\ pc[e] \in InFlightStates => orphans[e] = 0

\* A cycle timed out while its job was running; the next cycle has handed
\* its own job to the executor and the abandoned one has not finished.
C29_Witness ==
    \E e \in Entries :
        /\ Domain(e) = "hass_indoor_sun"
        /\ pc[e] = "PROCESSING"
        /\ job[e].stage = "queued"
        /\ orphans[e] = 1
        /\ last_exception[e].cause = "TimeoutError"


\* C30: when the first refresh of a hass_indoor_sun entry fails, setup
\* returns False, the coordinator is not stored in hass.data[DOMAIN] and no
\* platform is forwarded; the registry holds a coordinator only for entries
\* whose first refresh succeeded (a result is cached, and setup returns True
\* once the platforms are forwarded).
C30_FailedFirstRefreshStoresNothing ==
    /\ [](\A e \in Entries :
              Domain(e) = "hass_indoor_sun" =>
                  /\ setupResult[e] = "False" =>
                         /\ e \notin registry
                         /\ forwarded[e] = {}
                         /\ entryState[e] = "SETUP_ERROR"
                         /\ IsNone(data[e])
                         /\ ~timerArmed[e]
                  /\ e \in registry =>
                         /\ setupResult[e] \in {"none", "True"}
                         /\ ~IsNone(data[e])
                  /\ setupResult[e] = "True" => e \in registry
                  /\ forwarded[e] # {} => e \in registry)
    /\ [][\A e \in Entries :
              (/\ Domain(e) = "hass_indoor_sun"
               /\ entryState[e] = "SETUP_IN_PROGRESS"
               /\ pc[e] \in {"PUBLISHED", "FAILED"}
               /\ pc'[e] = "IDLE") =>
                  IF pc[e] = "FAILED"
                  THEN /\ setupResult'[e] = "False"
                       /\ registry' = registry
                       /\ forwarded' = forwarded
                  ELSE /\ setupResult'[e] = "none"
                       /\ registry' = registry \cup {e}]_vars

\* The first refresh of the snapshot entry met a 404: setup has returned
\* False and nothing is stored or forwarded.
C30_Witness ==
    /\ setupResult["h2"] = "False"
    /\ cycle["h2"].first
    /\ cycle["h2"].status = 404
    /\ "h2" \notin registry
    /\ forwarded["h2"] = {}
    /\ pc["h2"] = "IDLE"


\* C31: async_unload_entry unloads exactly the platforms async_setup_entry
\* forwarded for the entry, whatever option updates (a change of
\* enable_image_entity included) came in between, and it removes the
\* coordinator from hass.data[DOMAIN] exactly when the platform unload
\* reported success.
C31_UnloadsWhatWasForwarded ==
    [][\A e \in AllEntries :
          /\ (entryState[e] = "LOADED" /\ entryState'[e] = "UNLOAD_IN_PROGRESS") =>
                 unloading'[e] = forwarded[e]
          /\ (entryState[e] = "UNLOAD_IN_PROGRESS"
                  /\ entryState'[e] # "UNLOAD_IN_PROGRESS") =>
                 /\ entryState'[e] \in {"NOT_LOADED", "FAILED_UNLOAD"}
                 /\ (e \notin registry') <=> (entryState'[e] = "NOT_LOADED")]_vars

\* An entry set up without the image entity has had it enabled by the
\* options flow and is being unloaded: the unload names a platform that was
\* never forwarded.
C31_Witness ==
    \E e \in configured :
        /\ entryState[e] = "UNLOAD_IN_PROGRESS"
        /\ setupResult[e] = "True"
        /\ ~coordinator.enable_image_entity
        /\ Get(Merge(entry_data, entry_options), "enable_image_entity", FALSE)
        /\ forwarded[e] = {"sensor"}
        /\ unloading[e] = {"sensor", "image"}


\* C32: a submission of the wizard's test_connection step leads on to the
\* settings step only when a test image is stored (fetched with status 200
\* and decoded); without one, the test_connection form is shown again.
C32_SettingsOnlyAfterTestImage ==
    [][(flow.step = "test_connection" /\ flow'.step # "test_connection") =>
           /\ flow'.step = "settings"
           /\ Truthy(flow.test_image_data)
           /\ flow.test_image_data.parseable]_vars

\* The wizard stands at the settings step and no test image is stored.
C32_Witness ==
    /\ flow.step = "settings"
    /\ ~Truthy(flow.test_image_data)
    /\ flow.test_image_url # NoText


\* 443 if user_input["protocol"] == "https" else 5000
DefaultPort(protocol) == IF protocol = "https" THEN 443 ELSE 5000

\* The ports a frigate submission names itself.
SubmittedPorts == {choice[2] : choice \in FrigateChoices} \ {0}

\* C33: for every entry the wizard created, the URL the wizard offered to
\* test is the URL the coordinator requests on each poll: for a frigate
\* source protocol://host:port/api/camera_name/latest.jpg, where a port the
\* user left out is 443 for https and 5000 for http; for a snapshot source
\* the stripped snapshot URL.
C33_TestedUrlIsPolledUrl ==
    ~IsNone(coordinator) =>
        /\ HassRequestUrl(coordinator) = flow.test_image_url
        /\ entry_data["source_type"] = "frigate" =>
               /\ HassRequestUrl(coordinator) =
                      Text(entry_data["protocol"]) \o Text("://")
                          \o Text(entry_data["host"]) \o Text(":")
                          \o Text(ToString(entry_data["port"])) \o Text("/api/")
                          \o Text(entry_data["camera_name"]) \o Text("/latest.jpg")
               /\ entry_data["port"] \in
                      SubmittedPorts \cup {DefaultPort(entry_data["protocol"])}
        /\ entry_data["source_type"] = "snapshot" =>
               HassRequestUrl(coordinator) = Strip(entry_data["snapshot_url"])

\* A coordinator polls the entry the wizard created for an https frigate
\* whose port the user left out.
C33_Witness ==
    /\ ~IsNone(coordinator)
    /\ ~IsNone(data[WizardEntry])
    /\ entry_data["source_type"] = "frigate"
    /\ entry_data["protocol"] = "https"
    /\ entry_data["port"] \notin SubmittedPorts


\* The keys of STEP_IMAGE_PROCESSING_SCHEMA.
ImageProcessingKeys ==
    {"enable_cropping", "enable_brightness_adjustment", "enable_color_adjustment"}
        \cup CropKeys \cup BrightnessKeys \cup ColourKeys

\* C34: a submission of the image_processing step that fails validation
\* creates no entry, shows the form again with an error and leaves the
\* wizard's config_data as it was; the submission that is accepted later is
\* the only one whose values reach config_data and the entry.
C34_RejectedSubmissionLeavesNoTrace ==
    /\ [](flow.step = "image_processing" =>
              /\ DOMAIN flow.config_data \cap ImageProcessingKeys = {}
              /\ IsNone(entry_data))
    /\ [][(/\ flow.step = "image_processing"
            /\ flow' # flow
            /\ (flow'.step = "create_entry" \/ flow'.test_requests = flow.test_requests)) =>
              IF flow'.errors # NoErrors
              THEN /\ flow'.step = "image_processing"
                   /\ flow'.errors \in {BaseError("crop_coordinates_incomplete"),
                                        BaseError("crop_coordinates_invalid"),
                                        BaseError("brightness_range_invalid"),
                                        BaseError("color_range_invalid")}
                   /\ flow'.config_data = flow.config_data
                   /\ entry_data' = entry_data
              ELSE /\ flow'.step = "create_entry"
                   /\ Restrict(flow'.config_data,
                               DOMAIN flow'.config_data \ ImageProcessingKeys)
                          = flow.config_data
                   /\ ImageProcessingErrors(flow'.config_data) = NoErrors
                   /\ entry_data' = PrepareFinalConfig(flow'.config_data)]_vars

\* A submission with unordered crop coordinates has been rejected.
C34_Witness ==
    /\ flow.step = "image_processing"
    /\ flow.errors = BaseError("crop_coordinates_invalid")
    /\ IsNone(entry_data)


\* url.startswith(("http://", "https://"))
HttpUrl(url) == StartsWith(url, Text("http://")) \/ StartsWith(url, Text("https://"))

\* C35: the snapshot step rejects a URL that, stripped of surrounding
\* whitespace, starts with neither http:// nor https://: the form is shown
\* again with the error url_invalid_protocol, the wizard stays at the
\* snapshot step, and base_url, camera and test_image_url stay as they were.
C35_InvalidSnapshotUrlRejected ==
    /\ [](flow.step = "snapshot" =>
              /\ ~Has(flow.config_data, "base_url")
              /\ ~Has(flow.config_data, "camera")
              /\ ~Has(flow.config_data, "snapshot_url")
              /\ flow.test_image_url = NoText)
    /\ [][flow.step = "snapshot" /\ flow' # flow =>
              IF flow'.step = "snapshot"
              THEN /\ flow'.errors = [snapshot_url |-> "url_invalid_protocol"]
                   /\ flow'.config_data = flow.config_data
                   /\ flow'.test_image_url = flow.test_image_url
                   /\ flow'.test_image_data = flow.test_image_data
              ELSE /\ flow'.step = "test_connection"
                   /\ HttpUrl(flow'.test_image_url)
                   /\ HttpUrl(Strip(flow'.config_data["snapshot_url"]))
                   /\ flow'.config_data["base_url"] = flow'.test_image_url]_vars

\* A snapshot URL with another scheme has been rejected.
C35_Witness ==
    /\ flow.step = "snapshot"
    /\ flow.errors = [snapshot_url |-> "url_invalid_protocol"]
    /\ flow.test_image_url = NoText
    /\ ~Has(flow.config_data, "base_url")


\* IndoorSunImageEntity.available
ImageAvailable(success, d) == success /\ ~IsNone(d) /\ Has(d, "image_data")

\* IndoorSunImageEntity.async_get_image: the decoded image_data of the cached
\* result; None without a result, without image_data, or when decoding
\* raises.
AsyncGetImage(d) ==
    IF IsNone(d) THEN NoValue
    ELSE IF ~Has(d, "image_data") THEN NoValue
    ELSE IF B64Valid(d["image_data"]) THEN Value(B64Decode(d["image_data"]))
    ELSE NoValue

\* The image entity of entry e exists.
HasImage(e) == "image" \in forwarded[e]

\* C36: the image entity returns exactly the JPEG bytes the analyzer encoded
\* for the cached result (base64 decoding undoes the encoding), and whenever
\* the entity is available async_get_image returns bytes, not None.
C36_ImageEntityReturnsEncodedBytes ==
    \A e \in Entries :
        HasImage(e) =>
            /\ ImageAvailable(last_update_success[e], data[e]) =>
                   AsyncGetImage(data[e]) # NoValue
            /\ (~IsNone(data[e]) /\ Has(data[e], "image_data")) =>
                   \E body \in Bodies :
                       /\ ProcessImage(e, body).ok
                       /\ data[e] = ProcessImage(e, body).value
                       /\ AsyncGetImage(data[e]) =
                              Value(FileBytes(JpegEncode(
                                        SampledImage(Coordinator(e), body))))

\* The image entity of the snapshot entry is available and serves the
\* re-encoded crop of the cached result.
C36_Witness ==
    /\ HasImage("h2")
    /\ ImageAvailable(last_update_success["h2"], data["h2"])
    /\ data["h2"]["cropped"]
    /\ AsyncGetImage(data["h2"]) # NoValue
    /\ updateCalls["h2"] > 1


\* C37: for a frigate source with no crop and no adjustment, the coordinator
\* of hass_indoor_sun and the coordinator of indoor_sun behave alike on every
\* sequence of fetch outcomes: whenever both have resolved the same number
\* of refreshes, having met the same, they have requested the same URL,
\* their last refreshes have failed together, and they have published the
\* same brightness, r, g, b and rgb_string for the same image.
C37_CoordinatorsAgree ==
    TwinSynced =>
        /\ last_update_success["h1"] = last_update_success["o1"]
        /\ last_exception["h1"].exc = last_exception["o1"].exc
        /\ updateCalls["h1"] > 0 =>
               /\ image_url["h1"] = OldRequestUrl(Coordinator("o1"))
               /\ image_url["h1"] = HassRequestUrl(Coordinator("h1"))
        /\ IsNone(data["h1"]) = IsNone(data["o1"])
        /\ ~IsNone(data["h1"]) =>
               \A k \in {"brightness", "r", "g", "b", "rgb_string"} :
                   data["h1"][k] = data["o1"][k]

\* Both coordinators have published the analysis of the four-pixel frame
\* and then failed a refresh together.
C37_Witness ==
    /\ updateCalls["h1"] >= 2
    /\ updateCalls["o1"] = updateCalls["h1"]
    /\ pc["h1"] = "FAILED"
    /\ pc["o1"] = "FAILED"
    /\ ~IsNone(data["o1"])
    /\ data["o1"]["rgb_string"] = data["h1"]["rgb_string"]
    /\ data["h1"]["rgb_string"] = "102, 114, 127"


\* C38: the helper methods _apply_brightness_adjustment and
\* _apply_color_adjustment give the values the rescaling written inline in
\* _process_image gives for the same input, minimum and maximum.
C38_HelpersAgreeWithInline ==
    BenchAnalyzed =>
        LET c == BenchCoordinator
            img == SampledImage(c, bench.body)
            n == Len(img.px)
            raw == BrightnessPercent(SumBand(img.px, 1, n), SumBand(img.px, 2, n),
                                     SumBand(img.px, 3, n), n)
            out == <<bench.out.value.r, bench.out.value.g, bench.out.value.b>>
        IN  /\ (c.brightness_adjustment_enabled /\ c.min_brightness < c.max_brightness) =>
                   RoundHundredths(ApplyBrightnessAdjustment(c, raw))
                       = bench.out.value.brightness
            /\ c.color_adjustment_enabled =>
                   \A i \in 1..3 :
                       LET helper == ApplyColorAdjustment(FRatio(SumBand(img.px, i, n), n),
                                                          c.min_color[i], c.max_color[i])
                       IN  c.min_color[i] < c.max_color[i] =>
                               FCmp(helper, FOfInt(out[i])) = 0

\* A grey frame of 20 % brightness has been analyzed with the range 20..80:
\* the inline rescale publishes 0 %, the helper gives 32 %.
C38_Witness ==
    /\ BenchAnalyzed
    /\ BenchCoordinator.brightness_adjustment_enabled
    /\ BenchCoordinator.min_brightness = 20
    /\ BenchCoordinator.max_brightness = 80
    /\ bench.out.value.brightness = 0
    /\ RoundHundredths(ApplyBrightnessAdjustment(
           BenchCoordinator, BrightnessPercent(51, 51, 51, 1))) = 3200
    /\ bench.body.px[1] = <<51, 51, 51>>

====
